---- MODULE Spec2Model ----
(***************************************************************************)
(* Model of the per-height round state machine of                          *)
(* vendor/github.com/tendermint/tendermint/consensus/state.go              *)
(* (ConsensusState): the receive routine, the enter* step functions, the   *)
(* proposal / block-part / vote / sign-aggregate handlers and              *)
(* finalizeCommit.  Every validator runs one ConsensusState; validators    *)
(* outside the set `correct` are Byzantine and may send any message whose  *)
(* signatures they are able to produce.                                    *)
(***************************************************************************)
EXTENDS Integers, Sequences, FiniteSets, TLC

\* ------------------------------------------------------------------ bounds
MaxHeight == 1      \* heights 1..MaxHeight are run; a node stops at MaxHeight+1
MaxRound  == 1      \* rounds 0..MaxRound exist in the per-height structures
MaxQueue  == 1      \* capacity of internalMsgQueue in the model
IntBits   == 8      \* width of the signed integers of the quorum arithmetic

\* --------------------------------------------------------- RoundStepType
RoundStepNewHeight     == 1
RoundStepNewRound      == 2
RoundStepPropose       == 3
RoundStepPrevote       == 4
RoundStepPrevoteWait   == 5
RoundStepPrecommit     == 6
RoundStepPrecommitWait == 7
RoundStepCommit        == 8

\* ------------------------------------------------------------------ state
VARIABLES
    cs,        \* cs[n]: the ConsensusState of validator n (RoundState, queues, stores)
    correct    \* the validators that run this code; the others are Byzantine

\* ------------------------------------------------------------- data model
\* validator index -> voting power: three validators of power 1, 1, 2, or, when
\* all four validators of the network are correct, four of equal power; where
\* the verification of an aggregate is run on its own, the set it is given
VotingPower == IF correct = {} THEN cs.powers
               ELSE IF Cardinality(correct) = 4 THEN <<1, 1, 1, 1>> ELSE <<1, 1, 2>>
Val         == DOMAIN VotingPower
Blocks      == {"B1", "B2"}           \* block hashes (with their parts header)
NilBlockID  == "nil"                  \* the zero BlockID
NoBlock     == "none"                 \* a nil *types.Block / *types.PartSet
BlockIDs    == Blocks \cup {NilBlockID}
Rounds      == 0..(MaxRound + 1)
VoteTypePrevote   == "prevote"
VoteTypePrecommit == "precommit"
PartIdx     == {0}                    \* part indices of every block

RECURSIVE SumPower(_)
SumPower(S) == IF S = {} THEN 0
               ELSE LET v == CHOOSE x \in S : TRUE
                    IN VotingPower[v] + SumPower(S \ {v})

TotalVotingPower == SumPower(Val)

\* validator set: the proposer of (height, round); the accumulator rotates
GetProposer(height, round) == ((height + round - 1) % Cardinality(Val)) + 1

\* (*Block).HashesTo: false on a nil block or an empty hash
HashesTo(block, hash) == block # NoBlock /\ hash # NilBlockID /\ block = hash

\* (*PartSet).HasHeader: false on a nil part set
HasHeader(parts, header) == parts.Header # NoBlock /\ parts.Header = header

NilParts == [Header |-> NoBlock, Parts |-> {}]
NewPartSetFromHeader(header) == [Header |-> header, Parts |-> {}]
FullPartSet(header) == [Header |-> header, Parts |-> PartIdx]
IsComplete(parts) == parts.Header # NoBlock /\ parts.Parts = PartIdx

\* ------------------------------------------------------- VoteSet (cs.Votes)
NoVote == "none"
EmptyVoteSet == [v \in Val |-> NoVote]
NewHeightVoteSet == [prevotes |-> EmptyVoteSet, precommits |-> EmptyVoteSet]

Tally(vs, b) == SumPower({v \in Val : vs[v] = b})

\* VoteSet.HasTwoThirdsMajority / TwoThirdsMajority: one BlockID (nil
\* included) holds more than 2/3 of the total power
VoteSetMaj23(vs) == {b \in BlockIDs : 3 * Tally(vs, b) > 2 * TotalVotingPower}
VoteSetHasTwoThirdsMajority(vs) == VoteSetMaj23(vs) # {}
VoteSetTwoThirdsMajority(vs) ==
    IF VoteSetMaj23(vs) = {} THEN [blockID |-> NilBlockID, ok |-> FALSE]
    ELSE [blockID |-> CHOOSE b \in VoteSetMaj23(vs) : TRUE, ok |-> TRUE]

\* cs.Votes.Prevotes(round) / Precommits(round): only round 0 is ever created
\* (NewHeightVoteSet; the SetRound call of enterNewRound is commented out)
VotesOf(votes, type, round) ==
    IF round # 0 THEN EmptyVoteSet
    ELSE IF type = VoteTypePrevote THEN votes.prevotes ELSE votes.precommits

\* ------------------------------------------- SignAggr (cs.VoteSignAggr)
\* An aggregate is <<>> (nil) or <<a>>.  a.Sig is the set of <<validator,
\* BlockID>> pairs whose vote signatures were aggregated (0 = no signature).
NoAggr == <<>>
NewHeightVoteSignAggr ==
    [round |-> 0,
     prevotes |-> [r \in Rounds |-> NoAggr],
     precommits |-> [r \in Rounds |-> NoAggr]]

SetRound(hvs, round) == [hvs EXCEPT !.round = IF round > hvs.round THEN round ELSE hvs.round]

AggrOf(hvs, type, round) ==
    IF round \notin Rounds THEN NoAggr
    ELSE IF type = VoteTypePrevote THEN hvs.prevotes[round] ELSE hvs.precommits[round]

AddSignAggr(hvs, a) ==
    IF a.Round \notin Rounds THEN hvs
    ELSE IF a.Type = VoteTypePrevote
         THEN [hvs EXCEPT !.prevotes[a.Round] = <<a>>]
         ELSE [hvs EXCEPT !.precommits[a.Round] = <<a>>]

\* (*SignAggr).TwoThirdsMajority: the Maj23 BlockID carried by the aggregate
AggrTwoThirdsMajority(sa) ==
    IF sa = NoAggr THEN [blockID |-> NilBlockID, ok |-> FALSE]
    ELSE [blockID |-> sa[1].Maj23, ok |-> TRUE]

\* (*SignAggr).HasTwoThirdsMajority(validators): power of the bitmap
\* Go's fixed-width signed arithmetic: * and + wrap around, / truncates
\* towards zero
WrapInt(x) == ((x + 2^(IntBits - 1)) % 2^IntBits) - 2^(IntBits - 1)
QuoInt(a, b) == IF a >= 0 THEN a \div b ELSE -((-a) \div b)
Quorum == WrapInt(QuoInt(WrapInt(TotalVotingPower * 2), 3) + 1)
AggrHasTwoThirdsMajority(sa) ==
    sa # NoAggr /\ SumPower(sa[1].BitArray \cap Val) >= Quorum

\* HeightVoteSignAggr.POLInfo: the largest round with a prevote aggregate
\* whose majority is a non-nil BlockID, or (-1, nil)
POLRounds(hvs) ==
    {r \in Rounds : r <= hvs.round /\ hvs.prevotes[r] # NoAggr
                    /\ hvs.prevotes[r][1].Maj23 # NilBlockID}
POLInfo(hvs) ==
    IF POLRounds(hvs) = {} THEN [round |-> -1, blockID |-> NilBlockID]
    ELSE LET r == CHOOSE x \in POLRounds(hvs) : \A y \in POLRounds(hvs) : y <= x
         IN [round |-> r, blockID |-> hvs.prevotes[r][1].Maj23]

vars == <<cs, correct>>

\* messages
ProposalMessage(p)      == [kind |-> "proposal", body |-> p]
BlockPartMessage(bp)    == [kind |-> "part", body |-> bp]
VoteMessage(v)          == [kind |-> "vote", body |-> v]
Maj23SignAggrMessage(a) == [kind |-> "aggr", body |-> a]

\* a record of one side effect, stamped with the (height, round, step) it saw
Op(name, s) == [op |-> name, H |-> s.Height, R |-> s.Round, S |-> s.Step]
Emit(s, name) == [s EXCEPT !.ops = Append(@, Op(name, s))]

PanicSanity(s) == [Emit(s, "panic") EXCEPT !.panicked = TRUE]

\* faulty variant for C2: the height is advanced once too often
updateHeight_Skip(s, height) == [s EXCEPT !.Height = height + 1]

updateHeight(s, height) == [s EXCEPT !.Height = height]
updateRoundStep(s, round, step) == [s EXCEPT !.Round = round, !.Step = step]

\* newStep: cs.wal.Save(rs) of the NewRoundStep record
newStep(s) ==
    LET t == Emit(s, "wal.NewRoundStep")
    IN [t EXCEPT !.lastStep = Op("wal.NewRoundStep", s)]

\* the ticker keeps one pending timeout; the last one scheduled wins
scheduleTimeout(s, height, round, step) ==
    [s EXCEPT !.timeout = <<[Height |-> height, Round |-> round, Step |-> step]>>]

scheduleRound0(s) == scheduleTimeout(s, s.Height, 0, RoundStepNewHeight)

\* faulty variant for C20: with a full queue the message is dropped
sendInternalMessage_Drop(s, mi) ==
    IF Len(s.internalMsgQueue) < MaxQueue
    THEN [s EXCEPT !.internalMsgQueue = Append(@, mi)]
    ELSE s

sendInternalMessage(s, mi) ==
    IF Len(s.internalMsgQueue) < MaxQueue
    THEN [s EXCEPT !.internalMsgQueue = Append(@, mi)]
    ELSE [s EXCEPT !.goSends = @ \cup {mi}]

\* faulty variant for C12: with a full internal queue the vote is put into
\* cs.Votes at once instead of being self-sent
signAddVote_Inline(s, type, blockID) ==
    LET vote == [Type |-> type, ValidatorIndex |-> s.me, Height |-> s.Height,
                 Round |-> s.Round, BlockID |-> blockID, SigOK |-> TRUE]
        s1 == [Emit(s, "signVote") EXCEPT !.signed = @ \cup {vote}]
    IN IF Len(s.internalMsgQueue) < MaxQueue
       THEN sendInternalMessage(s1, VoteMessage(vote))
       ELSE IF type = "prevote"
            THEN [s1 EXCEPT !.Votes.prevotes[s.me] = blockID]
            ELSE [s1 EXCEPT !.Votes.precommits[s.me] = blockID]

\* signVote + signAddVote: sign a vote of this validator at (cs.Height, cs.Round)
signAddVote(s, type, blockID) ==
    LET vote == [Type |-> type, ValidatorIndex |-> s.me, Height |-> s.Height,
                 Round |-> s.Round, BlockID |-> blockID, SigOK |-> TRUE]
    IN sendInternalMessage([Emit(s, "signVote") EXCEPT !.signed = @ \cup {vote}],
                           VoteMessage(vote))

isProposalComplete(s) ==
    IF s.Proposal = <<>> \/ s.ProposalBlock = NoBlock THEN FALSE
    ELSE IF s.Proposal[1].POLRound < 0 THEN TRUE
    ELSE AggrHasTwoThirdsMajority(AggrOf(s.VoteSignAggr, VoteTypePrevote, s.Proposal[1].POLRound))

\* updateToStateAndEpoch(state, epoch); lbh is state.LastBlockHeight
updateToStateAndEpoch_KeepLock(s, lbh) ==
    IF s.CommitRound > -1 /\ 0 < s.Height /\ s.Height # lbh THEN PanicSanity(s)
    ELSE IF s.stateLastBlockHeight + 1 # s.Height THEN PanicSanity(s)
    ELSE IF lbh <= s.stateLastBlockHeight THEN s
    ELSE LET lastPrecommits ==
                 IF s.CommitRound > -1
                 THEN AggrOf(s.VoteSignAggr, VoteTypePrecommit, s.CommitRound)
                 ELSE NoAggr
             t == updateRoundStep(updateHeight(s, lbh + 1), 0, RoundStepNewHeight)
         IN newStep([t EXCEPT !.Proposal = <<>>,
                              !.ProposalBlock = NoBlock,
                              !.ProposalBlockParts = NilParts,
                              !.PrevoteMaj23SignAggr = NoAggr,
                              !.PrecommitMaj23SignAggr = NoAggr,
                              !.LockedRound = 0,
                              !.Votes = NewHeightVoteSet,
                              !.VoteSignAggr = NewHeightVoteSignAggr,
                              !.CommitRound = -1,
                              !.LastCommit = lastPrecommits,
                              !.stateLastBlockHeight = lbh])

updateToStateAndEpoch(s, lbh) ==
    IF s.CommitRound > -1 /\ 0 < s.Height /\ s.Height # lbh THEN PanicSanity(s)
    ELSE IF s.stateLastBlockHeight + 1 # s.Height THEN PanicSanity(s)
    ELSE IF lbh <= s.stateLastBlockHeight THEN s
    ELSE LET lastPrecommits ==
                 IF s.CommitRound > -1
                 THEN AggrOf(s.VoteSignAggr, VoteTypePrecommit, s.CommitRound)
                 ELSE NoAggr
             t == updateRoundStep(updateHeight(s, lbh + 1), 0, RoundStepNewHeight)
         IN newStep([t EXCEPT !.Proposal = <<>>,
                              !.ProposalBlock = NoBlock,
                              !.ProposalBlockParts = NilParts,
                              !.PrevoteMaj23SignAggr = NoAggr,
                              !.PrecommitMaj23SignAggr = NoAggr,
                              !.LockedRound = 0,
                              !.LockedBlock = NoBlock,
                              !.LockedBlockParts = NilParts,
                              !.Votes = NewHeightVoteSet,
                              !.VoteSignAggr = NewHeightVoteSignAggr,
                              !.CommitRound = -1,
                              !.LastCommit = lastPrecommits,
                              !.stateLastBlockHeight = lbh])

\* faulty variant for C11: the EndHeight record is written before the block is
\* saved
finalizeCommit_EndFirst(s, height, applyOk) ==
    IF s.Height # height \/ s.Step # RoundStepCommit THEN s
    ELSE
    LET maj == AggrTwoThirdsMajority(AggrOf(s.VoteSignAggr, VoteTypePrecommit, s.CommitRound))
        block == s.ProposalBlock
        blockParts == s.ProposalBlockParts
    IN IF ~maj.ok THEN PanicSanity(s)
       ELSE IF ~HasHeader(blockParts, maj.blockID) THEN PanicSanity(s)
       ELSE IF ~HashesTo(block, maj.blockID) THEN PanicSanity(s)
       ELSE
       LET s1 == Emit(s, "wal.EndHeight")
           s2 == IF Len(s1.blockStore) < s1.Height
                 THEN [Emit(Emit(s1, "MakeCommit"), "SaveBlock")
                          EXCEPT !.blockStore = Append(@, block)]
                 ELSE s1
           s3 == Emit(s2, "ApplyBlock")
       IN IF ~applyOk THEN s3
          ELSE scheduleRound0(updateToStateAndEpoch(s3, height))

\* faulty variant for C10: the EndHeight record is written after ApplyBlock
finalizeCommit_ApplyFirst(s, height, applyOk) ==
    IF s.Height # height \/ s.Step # RoundStepCommit THEN s
    ELSE
    LET maj == AggrTwoThirdsMajority(AggrOf(s.VoteSignAggr, VoteTypePrecommit, s.CommitRound))
        block == s.ProposalBlock
        blockParts == s.ProposalBlockParts
    IN IF ~maj.ok THEN PanicSanity(s)
       ELSE IF ~HasHeader(blockParts, maj.blockID) THEN PanicSanity(s)
       ELSE IF ~HashesTo(block, maj.blockID) THEN PanicSanity(s)
       ELSE
       LET s1 == IF Len(s.blockStore) < s.Height
                 THEN [Emit(Emit(s, "MakeCommit"), "SaveBlock")
                          EXCEPT !.blockStore = Append(@, block)]
                 ELSE s
           s2 == Emit(s1, "ApplyBlock")
           s3 == Emit(s2, "wal.EndHeight")
       IN IF ~applyOk THEN s3
          ELSE scheduleRound0(updateToStateAndEpoch(s3, height))

\* faulty variant for C19: an error of ApplyBlock is logged and the height is
\* advanced all the same
finalizeCommit_IgnoreError(s, height, applyOk) ==
    IF s.Height # height \/ s.Step # RoundStepCommit THEN s
    ELSE
    LET maj == AggrTwoThirdsMajority(AggrOf(s.VoteSignAggr, VoteTypePrecommit, s.CommitRound))
        block == s.ProposalBlock
        blockParts == s.ProposalBlockParts
    IN IF ~maj.ok THEN PanicSanity(s)
       ELSE IF ~HasHeader(blockParts, maj.blockID) THEN PanicSanity(s)
       ELSE IF ~HashesTo(block, maj.blockID) THEN PanicSanity(s)
       ELSE
       LET s1 == IF Len(s.blockStore) < s.Height
                 THEN [Emit(Emit(s, "MakeCommit"), "SaveBlock")
                          EXCEPT !.blockStore = Append(@, block)]
                 ELSE s
           s2 == Emit(s1, "wal.EndHeight")
           s3 == Emit(s2, "ApplyBlock")
       IN scheduleRound0(updateToStateAndEpoch(s3, height))

\* finalizeCommit(height); applyOk is the outcome of stateCopy.ApplyBlock
finalizeCommit_SaveAgain(s, height, applyOk) ==
    IF s.Height # height \/ s.Step # RoundStepCommit THEN s
    ELSE
    LET maj == AggrTwoThirdsMajority(AggrOf(s.VoteSignAggr, VoteTypePrecommit, s.CommitRound))
        block == s.ProposalBlock
        blockParts == s.ProposalBlockParts
    IN IF ~maj.ok THEN PanicSanity(s)
       ELSE IF ~HasHeader(blockParts, maj.blockID) THEN PanicSanity(s)
       ELSE IF ~HashesTo(block, maj.blockID) THEN PanicSanity(s)
       ELSE
       LET s1 == [Emit(Emit(s, "MakeCommit"), "SaveBlock")
                    EXCEPT !.blockStore = Append(@, block)]
           s2 == Emit(s1, "wal.EndHeight")
           s3 == Emit(s2, "ApplyBlock")
       IN IF ~applyOk THEN s3
          ELSE scheduleRound0(updateToStateAndEpoch(s3, height))

finalizeCommit(s, height, applyOk) ==
    IF s.Height # height \/ s.Step # RoundStepCommit THEN s
    ELSE
    LET maj == AggrTwoThirdsMajority(AggrOf(s.VoteSignAggr, VoteTypePrecommit, s.CommitRound))
        block == s.ProposalBlock
        blockParts == s.ProposalBlockParts
    IN IF ~maj.ok THEN PanicSanity(s)
       ELSE IF ~HasHeader(blockParts, maj.blockID) THEN PanicSanity(s)
       ELSE IF ~HashesTo(block, maj.blockID) THEN PanicSanity(s)
       ELSE
       LET s1 == IF Len(s.blockStore) < s.Height
                 THEN [Emit(Emit(s, "MakeCommit"), "SaveBlock")
                          EXCEPT !.blockStore = Append(@, block)]
                 ELSE s
           s2 == Emit(s1, "wal.EndHeight")
           s3 == Emit(s2, "ApplyBlock")
       IN IF ~applyOk THEN s3
          ELSE scheduleRound0(updateToStateAndEpoch(s3, height))

tryFinalizeCommit(s, height, applyOk) ==
    IF s.Height # height THEN PanicSanity(s)
    ELSE LET maj == AggrTwoThirdsMajority(AggrOf(s.VoteSignAggr, VoteTypePrecommit, s.CommitRound))
         IN IF ~maj.ok \/ maj.blockID = NilBlockID THEN s
            ELSE IF ~HashesTo(s.ProposalBlock, maj.blockID) THEN s
            ELSE finalizeCommit(s, height, applyOk)

enterCommit_NoCommitRound(s, height, commitRound, applyOk) ==
    IF s.Height # height \/ RoundStepCommit <= s.Step THEN s
    ELSE
    LET maj == AggrTwoThirdsMajority(AggrOf(s.VoteSignAggr, VoteTypePrecommit, commitRound))
        s1 == IF HashesTo(s.LockedBlock, maj.blockID)
              THEN [s EXCEPT !.ProposalBlock = s.LockedBlock,
                             !.ProposalBlockParts = s.LockedBlockParts]
              ELSE s
        s2 == IF ~HashesTo(s1.ProposalBlock, maj.blockID)
                 /\ ~HasHeader(s1.ProposalBlockParts, maj.blockID)
              THEN [s1 EXCEPT !.ProposalBlock = NoBlock,
                              !.ProposalBlockParts = NewPartSetFromHeader(maj.blockID)]
              ELSE s1
        body == IF ~maj.ok THEN PanicSanity(s) ELSE s2
        \* the deferred function
        d1 == [Emit(updateRoundStep(body, body.Round, RoundStepCommit), "CommitRound=")
                  EXCEPT !.CommitRound = -1]
    IN tryFinalizeCommit(newStep(d1), height, applyOk)

enterCommit(s, height, commitRound, applyOk) ==
    IF s.Height # height \/ RoundStepCommit <= s.Step THEN s
    ELSE
    LET maj == AggrTwoThirdsMajority(AggrOf(s.VoteSignAggr, VoteTypePrecommit, commitRound))
        s1 == IF HashesTo(s.LockedBlock, maj.blockID)
              THEN [s EXCEPT !.ProposalBlock = s.LockedBlock,
                             !.ProposalBlockParts = s.LockedBlockParts]
              ELSE s
        s2 == IF ~HashesTo(s1.ProposalBlock, maj.blockID)
                 /\ ~HasHeader(s1.ProposalBlockParts, maj.blockID)
              THEN [s1 EXCEPT !.ProposalBlock = NoBlock,
                              !.ProposalBlockParts = NewPartSetFromHeader(maj.blockID)]
              ELSE s1
        body == IF ~maj.ok THEN PanicSanity(s) ELSE s2
        \* the deferred function
        d1 == [Emit(updateRoundStep(body, body.Round, RoundStepCommit), "CommitRound=")
                  EXCEPT !.CommitRound = commitRound]
    IN tryFinalizeCommit(newStep(d1), height, applyOk)

\* faulty variant: the proposal is prevoted even by a locked validator
newDoPrevote_ProposalFirst(s, height, round) ==
    IF s.Proposal # <<>> THEN signAddVote(s, VoteTypePrevote, s.Proposal[1].BlockID)
    ELSE IF s.LockedBlock # NoBlock THEN signAddVote(s, VoteTypePrevote, s.LockedBlock)
    ELSE signAddVote(s, VoteTypePrevote, NilBlockID)

newDoPrevote(s, height, round) ==
    IF s.LockedBlock # NoBlock THEN signAddVote(s, VoteTypePrevote, s.LockedBlock)
    ELSE IF s.Proposal = <<>> THEN signAddVote(s, VoteTypePrevote, NilBlockID)
    ELSE signAddVote(s, VoteTypePrevote, s.Proposal[1].BlockID)

\* faulty variant for C3: the guard forgets the step
enterPrevote_NoStepGuard(s, height, round) ==
    IF s.Height # height \/ round < s.Round
    THEN s
    ELSE newStep(updateRoundStep(newDoPrevote(s, height, round), round, RoundStepPrevote))

enterPrevote_UpToPrevote(s, height, round) ==
    IF s.Height # height \/ round < s.Round \/ (s.Round = round /\ RoundStepPrevote < s.Step)
    THEN s
    ELSE newStep(updateRoundStep(newDoPrevote(s, height, round), round, RoundStepPrevote))

enterPrevote(s, height, round) ==
    IF s.Height # height \/ round < s.Round \/ (s.Round = round /\ RoundStepPrevote <= s.Step)
    THEN s
    ELSE newStep(updateRoundStep(newDoPrevote(s, height, round), round, RoundStepPrevote))

\* faulty variant for C5: the proposal block is locked without comparing its
\* hash with the majority of the prevotes
enterPrecommit_LockAny(s, height, round) ==
    IF s.Height # height \/ round < s.Round \/ (s.Round = round /\ RoundStepPrecommit <= s.Step)
    THEN s
    ELSE
    LET sa == AggrOf(s.VoteSignAggr, VoteTypePrevote, round)
        maj == AggrTwoThirdsMajority(sa)
        unlocked == [s EXCEPT !.LockedRound = 0, !.LockedBlock = NoBlock,
                              !.LockedBlockParts = NilParts]
        body ==
          IF sa = NoAggr THEN PanicSanity(s)
          ELSE IF ~maj.ok THEN signAddVote(s, VoteTypePrecommit, NilBlockID)
          ELSE IF POLInfo(s.VoteSignAggr).round < round THEN PanicSanity(s)
          ELSE IF maj.blockID = NilBlockID
               THEN signAddVote(IF s.LockedBlock = NoBlock THEN s ELSE unlocked,
                                VoteTypePrecommit, NilBlockID)
          ELSE IF HashesTo(s.LockedBlock, maj.blockID)
               THEN signAddVote([s EXCEPT !.LockedRound = round], VoteTypePrecommit, maj.blockID)
          ELSE IF s.ProposalBlock # NoBlock
               THEN signAddVote([s EXCEPT !.LockedRound = round,
                                          !.LockedBlock = s.ProposalBlock,
                                          !.LockedBlockParts = s.ProposalBlockParts],
                                VoteTypePrecommit, maj.blockID)
          ELSE signAddVote(IF ~HasHeader(unlocked.ProposalBlockParts, maj.blockID)
                           THEN [unlocked EXCEPT !.ProposalBlock = NoBlock,
                                    !.ProposalBlockParts = NewPartSetFromHeader(maj.blockID)]
                           ELSE unlocked,
                           VoteTypePrecommit, NilBlockID)
    IN newStep(updateRoundStep(body, round, RoundStepPrecommit))


\* faulty variant for C26: a block the validator does not have is precommitted
enterPrecommit_Unseen(s, height, round) ==
    IF s.Height # height \/ round < s.Round \/ (s.Round = round /\ RoundStepPrecommit <= s.Step)
    THEN s
    ELSE
    LET sa == AggrOf(s.VoteSignAggr, VoteTypePrevote, round)
        maj == AggrTwoThirdsMajority(sa)
        unlocked == [s EXCEPT !.LockedRound = 0, !.LockedBlock = NoBlock,
                              !.LockedBlockParts = NilParts]
        body ==
          \* Prevotes(round).BlockID is read before ok is tested: a nil aggregate
          \* is a nil dereference
          IF sa = NoAggr THEN PanicSanity(s)
          ELSE IF ~maj.ok THEN signAddVote(s, VoteTypePrecommit, NilBlockID)
          ELSE IF POLInfo(s.VoteSignAggr).round < round THEN PanicSanity(s)
          ELSE IF maj.blockID = NilBlockID
               THEN signAddVote(IF s.LockedBlock = NoBlock THEN s ELSE unlocked,
                                VoteTypePrecommit, NilBlockID)
          ELSE IF HashesTo(s.LockedBlock, maj.blockID)
               THEN signAddVote([s EXCEPT !.LockedRound = round], VoteTypePrecommit, maj.blockID)
          ELSE IF HashesTo(s.ProposalBlock, maj.blockID)
               THEN signAddVote([s EXCEPT !.LockedRound = round,
                                          !.LockedBlock = s.ProposalBlock,
                                          !.LockedBlockParts = s.ProposalBlockParts],
                                VoteTypePrecommit, maj.blockID)
          ELSE signAddVote(IF ~HasHeader(unlocked.ProposalBlockParts, maj.blockID)
                           THEN [unlocked EXCEPT !.ProposalBlock = NoBlock,
                                    !.ProposalBlockParts = NewPartSetFromHeader(maj.blockID)]
                           ELSE unlocked,
                           VoteTypePrecommit, maj.blockID)
    IN newStep(updateRoundStep(body, round, RoundStepPrecommit))

enterPrecommit(s, height, round) ==
    IF s.Height # height \/ round < s.Round \/ (s.Round = round /\ RoundStepPrecommit <= s.Step)
    THEN s
    ELSE
    LET sa == AggrOf(s.VoteSignAggr, VoteTypePrevote, round)
        maj == AggrTwoThirdsMajority(sa)
        unlocked == [s EXCEPT !.LockedRound = 0, !.LockedBlock = NoBlock,
                              !.LockedBlockParts = NilParts]
        body ==
          \* Prevotes(round).BlockID is read before ok is tested: a nil aggregate
          \* is a nil dereference
          IF sa = NoAggr THEN PanicSanity(s)
          ELSE IF ~maj.ok THEN signAddVote(s, VoteTypePrecommit, NilBlockID)
          ELSE IF POLInfo(s.VoteSignAggr).round < round THEN PanicSanity(s)
          ELSE IF maj.blockID = NilBlockID
               THEN signAddVote(IF s.LockedBlock = NoBlock THEN s ELSE unlocked,
                                VoteTypePrecommit, NilBlockID)
          ELSE IF HashesTo(s.LockedBlock, maj.blockID)
               THEN signAddVote([s EXCEPT !.LockedRound = round], VoteTypePrecommit, maj.blockID)
          ELSE IF HashesTo(s.ProposalBlock, maj.blockID)
               THEN signAddVote([s EXCEPT !.LockedRound = round,
                                          !.LockedBlock = s.ProposalBlock,
                                          !.LockedBlockParts = s.ProposalBlockParts],
                                VoteTypePrecommit, maj.blockID)
          ELSE signAddVote(IF ~HasHeader(unlocked.ProposalBlockParts, maj.blockID)
                           THEN [unlocked EXCEPT !.ProposalBlock = NoBlock,
                                    !.ProposalBlockParts = NewPartSetFromHeader(maj.blockID)]
                           ELSE unlocked,
                           VoteTypePrecommit, NilBlockID)
    IN newStep(updateRoundStep(body, round, RoundStepPrecommit))

\* createProposalBlock: the block built from the mempool, or none on error
createProposalBlock(s) ==
    IF s.Height = 1 THEN "B1"
    ELSE IF AggrHasTwoThirdsMajority(s.LastCommit) THEN "B1"
    ELSE NoBlock

defaultDecideProposal(s, height, round) ==
    LET block == IF s.LockedBlock # NoBlock THEN s.LockedBlock ELSE createProposalBlock(s)
        proposal == [Height |-> height, Round |-> round, BlockID |-> block,
                     POLRound |-> POLInfo(s.VoteSignAggr).round, Signer |-> s.me]
        part == [Height |-> s.Height, Round |-> s.Round, Block |-> block,
                 Index |-> 0, ProofOK |-> TRUE]
        s1 == [Emit(s, "signProposal") EXCEPT !.proposed = @ \cup {proposal}]
    IN IF block = NoBlock THEN s
       ELSE sendInternalMessage(sendInternalMessage(s1, ProposalMessage(proposal)),
                                BlockPartMessage(part))

enterPropose(s, height, round) ==
    IF s.Height # height \/ round < s.Round \/ (s.Round = round /\ RoundStepPropose <= s.Step)
    THEN s
    ELSE
    LET s1 == scheduleTimeout(s, height, round, RoundStepPropose)
        s2 == IF GetProposer(s1.Height, s1.Round) = s1.me
              THEN defaultDecideProposal(s1, height, round)
              ELSE s1
        d1 == newStep(updateRoundStep(s2, round, RoundStepPropose))
    IN IF d1.Proposal # <<>> THEN enterPrevote(d1, height, d1.Round) ELSE d1

enterNewRound_KeepProposal(s, height, round) ==
    IF s.Height # height \/ round < s.Round \/ (s.Round = round /\ s.Step # RoundStepNewHeight)
    THEN s
    ELSE
    LET s1 == updateRoundStep(s, round, RoundStepNewRound)
        s2 == s1
        s3 == [s2 EXCEPT !.VoteSignAggr = SetRound(@, round + 1)]
    IN enterPropose(s3, height, round)

enterNewRound(s, height, round) ==
    IF s.Height # height \/ round < s.Round \/ (s.Round = round /\ s.Step # RoundStepNewHeight)
    THEN s
    ELSE
    LET s1 == updateRoundStep(s, round, RoundStepNewRound)
        s2 == IF round = 0 THEN s1
              ELSE [s1 EXCEPT !.Proposal = <<>>,
                              !.ProposalBlock = NoBlock,
                              !.ProposalBlockParts = NilParts,
                              !.PrevoteMaj23SignAggr = NoAggr,
                              !.PrecommitMaj23SignAggr = NoAggr]
        s3 == [s2 EXCEPT !.VoteSignAggr = SetRound(@, round + 1)]
    IN enterPropose(s3, height, round)

\* faulty variant for C6: the proposal's height and round are not compared
\* with the current ones
newSetProposal_AnyHeight(s, proposal) ==
    IF s.Proposal # <<>> THEN [s |-> s, err |-> "nil"]
    ELSE IF RoundStepCommit <= s.Step THEN [s |-> s, err |-> "nil"]
    ELSE IF proposal.POLRound # -1
            /\ (proposal.POLRound < 0 \/ proposal.Round <= proposal.POLRound)
         THEN [s |-> s, err |-> "ErrInvalidProposalPOLRound"]
    ELSE IF proposal.Signer # GetProposer(s.Height, s.Round)
         THEN [s |-> s, err |-> "ErrInvalidProposalSignature"]
    ELSE [s |-> [s EXCEPT !.Proposal = <<proposal>>,
                          !.ProposalBlockParts = NewPartSetFromHeader(proposal.BlockID)],
          err |-> "nil"]

\* faulty variant for C7: the proposal is installed before its signature is
\* verified
newSetProposal_SetFirst(s, proposal) ==
    IF s.Proposal # <<>> THEN [s |-> s, err |-> "nil"]
    ELSE IF proposal.Height # s.Height \/ proposal.Round # s.Round THEN [s |-> s, err |-> "nil"]
    ELSE IF RoundStepCommit <= s.Step THEN [s |-> s, err |-> "nil"]
    ELSE IF proposal.POLRound # -1
            /\ (proposal.POLRound < 0 \/ proposal.Round <= proposal.POLRound)
         THEN [s |-> s, err |-> "ErrInvalidProposalPOLRound"]
    ELSE [s |-> [s EXCEPT !.Proposal = <<proposal>>,
                          !.ProposalBlockParts = NewPartSetFromHeader(proposal.BlockID)],
          err |-> IF proposal.Signer # GetProposer(s.Height, s.Round)
                  THEN "ErrInvalidProposalSignature" ELSE "nil"]

\* newSetProposal: the new state and the error returned
newSetProposal(s, proposal) ==
    IF s.Proposal # <<>> THEN [s |-> s, err |-> "nil"]
    ELSE IF proposal.Height # s.Height \/ proposal.Round # s.Round THEN [s |-> s, err |-> "nil"]
    ELSE IF RoundStepCommit <= s.Step THEN [s |-> s, err |-> "nil"]
    ELSE IF proposal.POLRound # -1
            /\ (proposal.POLRound < 0 \/ proposal.Round <= proposal.POLRound)
         THEN [s |-> s, err |-> "ErrInvalidProposalPOLRound"]
    ELSE IF proposal.Signer # GetProposer(s.Height, s.Round)
         THEN [s |-> s, err |-> "ErrInvalidProposalSignature"]
    ELSE [s |-> [s EXCEPT !.Proposal = <<proposal>>,
                          !.ProposalBlockParts = NewPartSetFromHeader(proposal.BlockID)],
          err |-> "nil"]

\* (*PartSet).AddPart(part, verify): the part set, whether added, and the error
AddPart(parts, part, verify) ==
    IF verify /\ (~part.ProofOK \/ part.Block # parts.Header)
    THEN [parts |-> parts, added |-> FALSE, err |-> "ErrPartSetInvalidProof"]
    ELSE IF part.Index \notin PartIdx
    THEN [parts |-> parts, added |-> FALSE, err |-> "ErrPartSetUnexpectedIndex"]
    ELSE IF part.Index \in parts.Parts
    THEN [parts |-> parts, added |-> FALSE, err |-> "nil"]
    ELSE [parts |-> [parts EXCEPT !.Parts = @ \cup {part.Index}], added |-> TRUE, err |-> "nil"]

addProposalBlockPart(s, height, part, verify) ==
    IF s.Height # height THEN [s |-> s, err |-> "nil"]
    ELSE IF s.ProposalBlockParts = NilParts THEN [s |-> s, err |-> "nil"]
    ELSE LET r == AddPart(s.ProposalBlockParts, part, verify)
             s1 == [s EXCEPT !.ProposalBlockParts = r.parts]
         IN IF r.err # "nil" THEN [s |-> s, err |-> r.err]
            ELSE IF r.added /\ IsComplete(r.parts)
                 THEN [s |-> [s1 EXCEPT !.ProposalBlock = part.Block], err |-> "nil"]
            ELSE [s |-> s1, err |-> "nil"]

\* faulty variant for C4: the power of the bitmap is not compared with the quorum
BLSVerifySignAggr_NoQuorum(s, signAggr) ==
    IF signAggr.Sig = "nil" THEN [maj23 |-> FALSE, err |-> "Invalid BLSSignature(nil)"]
    ELSE IF Cardinality(Val) # signAggr.Size
         THEN [maj23 |-> FALSE, err |-> "validators are not matched"]
    ELSE IF signAggr.BitArray = {}
         THEN [maj23 |-> FALSE, err |-> "can not aggregate pubkeys"]
    ELSE IF signAggr.Sig # "ok"
         THEN [maj23 |-> FALSE, err |-> "Invalid aggregate signature"]
    ELSE [maj23 |-> TRUE, err |-> "nil"]

\* BLSVerifySignAggr: (maj23, err)
BLSVerifySignAggr(s, signAggr) ==
    IF signAggr.Sig = "nil" THEN [maj23 |-> FALSE, err |-> "Invalid BLSSignature(nil)"]
    ELSE IF Cardinality(Val) # signAggr.Size
         THEN [maj23 |-> FALSE, err |-> "validators are not matched"]
    ELSE IF signAggr.BitArray = {}
         THEN [maj23 |-> FALSE, err |-> "can not aggregate pubkeys"]
    ELSE IF signAggr.Sig # "ok"
         THEN [maj23 |-> FALSE, err |-> "Invalid aggregate signature"]
    ELSE [maj23 |-> SumPower(signAggr.BitArray) >= Quorum,
          err |-> "nil"]

verifyMaj23SignAggr(s, signAggr) ==
    LET r == BLSVerifySignAggr(s, signAggr)
    IN IF r.err # "nil" THEN [maj23 |-> FALSE, err |-> r.err] ELSE r

\* faulty variant for C8: the aggregate is stored before the duplicate test
setMaj23SignAggr_StoreFirst(s, signAggr, applyOk) ==
    IF signAggr.Height # s.Height \/ signAggr.Round # s.Round THEN [s |-> s, err |-> "nil"]
    ELSE
    LET v == verifyMaj23SignAggr(s, signAggr)
        s1 == [s EXCEPT !.VoteSignAggr = AddSignAggr(@, signAggr)]
    IN IF v.err # "nil" \/ ~v.maj23 THEN [s |-> s, err |-> "ErrInvalidSignatureAggr"]
       ELSE IF signAggr.Type = VoteTypePrevote
       THEN IF s.PrevoteMaj23SignAggr # NoAggr
            THEN [s |-> s1, err |-> "ErrDuplicateSignatureAggr"]
            ELSE LET s2 == [s1 EXCEPT !.PrevoteMaj23SignAggr = <<signAggr>>]
                 IN IF isProposalComplete(s2)
                    THEN [s |-> enterPrecommit(s2, s2.Height, s2.Round), err |-> "nil"]
                    ELSE [s |-> s2, err |-> "nil"]
       ELSE IF signAggr.Type = VoteTypePrecommit
       THEN IF s.PrecommitMaj23SignAggr # NoAggr
            THEN [s |-> s1, err |-> "ErrDuplicateSignatureAggr"]
            ELSE LET s2 == [s1 EXCEPT !.PrecommitMaj23SignAggr = <<signAggr>>]
                 IN IF isProposalComplete(s2)
                    THEN [s |-> enterCommit(s2, s2.Height, s2.Round, applyOk), err |-> "nil"]
                    ELSE [s |-> s2, err |-> "nil"]
       ELSE [s |-> s, err |-> "ErrInvalidSignatureAggr"]

setMaj23SignAggr_StoreOnly(s, signAggr, applyOk) ==
    IF signAggr.Height # s.Height \/ signAggr.Round # s.Round THEN [s |-> s, err |-> "nil"]
    ELSE
    LET v == verifyMaj23SignAggr(s, signAggr)
    IN IF v.err # "nil" \/ ~v.maj23 THEN [s |-> s, err |-> "ErrInvalidSignatureAggr"]
       ELSE IF signAggr.Type = VoteTypePrevote
       THEN IF s.PrevoteMaj23SignAggr # NoAggr
            THEN [s |-> s, err |-> "ErrDuplicateSignatureAggr"]
            ELSE LET s1 == [s EXCEPT !.VoteSignAggr = AddSignAggr(@, signAggr),
                                     !.PrevoteMaj23SignAggr = <<signAggr>>]
                 IN IF isProposalComplete(s1)
                    THEN [s |-> s1, err |-> "nil"]
                    ELSE [s |-> s1, err |-> "nil"]
       ELSE IF signAggr.Type = VoteTypePrecommit
       THEN IF s.PrecommitMaj23SignAggr # NoAggr
            THEN [s |-> s, err |-> "ErrDuplicateSignatureAggr"]
            ELSE LET s1 == [s EXCEPT !.VoteSignAggr = AddSignAggr(@, signAggr),
                                     !.PrecommitMaj23SignAggr = <<signAggr>>]
                 IN IF isProposalComplete(s1)
                    THEN [s |-> enterCommit(s1, s1.Height, s1.Round, applyOk), err |-> "nil"]
                    ELSE [s |-> s1, err |-> "nil"]
       ELSE [s |-> s, err |-> "ErrInvalidSignatureAggr"]

setMaj23SignAggr(s, signAggr, applyOk) ==
    IF signAggr.Height # s.Height \/ signAggr.Round # s.Round THEN [s |-> s, err |-> "nil"]
    ELSE
    LET v == verifyMaj23SignAggr(s, signAggr)
    IN IF v.err # "nil" \/ ~v.maj23 THEN [s |-> s, err |-> "ErrInvalidSignatureAggr"]
       ELSE IF signAggr.Type = VoteTypePrevote
       THEN IF s.PrevoteMaj23SignAggr # NoAggr
            THEN [s |-> s, err |-> "ErrDuplicateSignatureAggr"]
            ELSE LET s1 == [s EXCEPT !.VoteSignAggr = AddSignAggr(@, signAggr),
                                     !.PrevoteMaj23SignAggr = <<signAggr>>]
                 IN IF isProposalComplete(s1)
                    THEN [s |-> enterPrecommit(s1, s1.Height, s1.Round), err |-> "nil"]
                    ELSE [s |-> s1, err |-> "nil"]
       ELSE IF signAggr.Type = VoteTypePrecommit
       THEN IF s.PrecommitMaj23SignAggr # NoAggr
            THEN [s |-> s, err |-> "ErrDuplicateSignatureAggr"]
            ELSE LET s1 == [s EXCEPT !.VoteSignAggr = AddSignAggr(@, signAggr),
                                     !.PrecommitMaj23SignAggr = <<signAggr>>]
                 IN IF isProposalComplete(s1)
                    THEN [s |-> enterCommit(s1, s1.Height, s1.Round, applyOk), err |-> "nil"]
                    ELSE [s |-> s1, err |-> "nil"]
       ELSE [s |-> s, err |-> "ErrInvalidSignatureAggr"]

\* sendMaj23SignAggr: build the aggregate from cs.Votes and self-send it
sendMaj23SignAggr(s, voteType) ==
    LET votes == VotesOf(s.Votes, voteType, s.Round)
        maj == VoteSetTwoThirdsMajority(VotesOf(s.Votes, VoteTypePrevote, s.Round))
        signers == {v \in Val : votes[v] # NoVote}
        last == CHOOSE v \in signers : \A w \in signers : w <= v
        blockID == votes[last]
        signAggr == [Height |-> s.Height, Round |-> s.Round, Type |-> voteType,
                     Size |-> Cardinality(Val), BlockID |-> blockID,
                     BitArray |-> signers,
                     Sig |-> IF \A v \in signers : votes[v] = blockID THEN "ok" ELSE "bad",
                     Maj23 |-> maj.blockID]
    IN IF ~maj.ok \/ maj.blockID = NilBlockID THEN PanicSanity(s)
       ELSE sendInternalMessage([Emit(s, "sendMaj23SignAggr")
                                    EXCEPT !.fired = @ \cup {signAggr}],
                                Maj23SignAggrMessage(signAggr))

\* HeightVoteSet.AddVote: the vote sets, whether added, and the error
VotesAddVote(votes, vote) ==
    LET vs == VotesOf(votes, vote.Type, vote.Round)
    IN IF vote.Round # 0 \/ vote.Type \notin {VoteTypePrevote, VoteTypePrecommit}
       THEN [votes |-> votes, added |-> FALSE, err |-> "ErrVoteUnexpectedStep"]
       ELSE IF vote.ValidatorIndex \notin Val
       THEN [votes |-> votes, added |-> FALSE, err |-> "ErrVoteInvalidValidatorIndex"]
       ELSE IF ~vote.SigOK
       THEN [votes |-> votes, added |-> FALSE, err |-> "ErrVoteInvalidSignature"]
       ELSE IF vs[vote.ValidatorIndex] = vote.BlockID
       THEN [votes |-> votes, added |-> FALSE, err |-> "nil"]
       ELSE IF vs[vote.ValidatorIndex] # NoVote
       THEN [votes |-> votes, added |-> FALSE, err |-> "ErrVoteConflictingVotes"]
       ELSE [votes |-> IF vote.Type = VoteTypePrevote
                       THEN [votes EXCEPT !.prevotes[vote.ValidatorIndex] = vote.BlockID]
                       ELSE [votes EXCEPT !.precommits[vote.ValidatorIndex] = vote.BlockID],
             added |-> TRUE, err |-> "nil"]

\* faulty variant: a vote set that reaches +2/3 yields no aggregate
addVote_NoAggr(s, vote, peerKey) ==
    IF vote.Height = s.Height
    THEN LET r == VotesAddVote(s.Votes, vote)
             s1 == [s EXCEPT !.Votes = r.votes]
         IN IF r.added
            THEN [s |-> s1, err |-> r.err]
            ELSE [s |-> s, err |-> r.err]
    ELSE [s |-> s, err |-> "ErrVoteHeightMismatch"]

addVote(s, vote, peerKey) ==
    IF vote.Height = s.Height
    THEN LET r == VotesAddVote(s.Votes, vote)
             s1 == [s EXCEPT !.Votes = r.votes]
         IN IF r.added
            THEN IF VoteSetHasTwoThirdsMajority(VotesOf(s1.Votes, vote.Type, s1.Round))
                 THEN [s |-> sendMaj23SignAggr(s1, vote.Type), err |-> r.err]
                 ELSE [s |-> s1, err |-> r.err]
            ELSE [s |-> s, err |-> r.err]
    ELSE [s |-> s, err |-> "ErrVoteHeightMismatch"]

tryAddVote(s, vote, peerKey) ==
    LET r == addVote(s, vote, peerKey)
    IN IF r.err = "nil" \/ r.err = "ErrVoteHeightMismatch" \/ r.err = "ErrVoteConflictingVotes"
       THEN r
       ELSE [s |-> r.s, err |-> "ErrAddingVote"]

\* handleMsg(mi, rs); peerKey is "" for an internal message
handleMsg(s, mi, peerKey, applyOk) ==
    IF mi.kind = "proposal"
    THEN LET r == newSetProposal(s, mi.body)
         IN [s |-> IF r.err = "nil" THEN enterPrevote(r.s, r.s.Height, r.s.Round) ELSE r.s,
             err |-> r.err]
    ELSE IF mi.kind = "part"
    THEN LET r == addProposalBlockPart(s, mi.body.Height, mi.body, peerKey # "")
             err == IF r.err # "nil" /\ mi.body.Round # r.s.Round THEN "nil" ELSE r.err
             sa == AggrOf(r.s.VoteSignAggr, VoteTypePrevote, r.s.Round)
         IN [s |-> IF err = "nil" /\ isProposalComplete(r.s) /\ r.s.Step = RoundStepPrevote
                      /\ sa # NoAggr /\ AggrHasTwoThirdsMajority(sa)
                   THEN enterPrecommit(r.s, r.s.Height, r.s.Round)
                   ELSE r.s,
             err |-> err]
    ELSE IF mi.kind = "aggr"
    THEN setMaj23SignAggr(s, mi.body, applyOk)
    ELSE tryAddVote(s, mi.body, peerKey)

\* the ConsensusState at the last cs.mtx.Unlock() of handleMsg: the case of a
\* proposal releases the mutex after setProposal and calls enterPrevote
\* without it; the other cases hold it until their last state change
AtLastUnlock(s, mi, peerKey, applyOk) ==
    IF mi.kind = "proposal" THEN newSetProposal(s, mi.body).s
    ELSE handleMsg(s, mi, peerKey, applyOk).s

\* faulty variant for C24: the Propose timeout goes on to Precommit
handleTimeout_SkipPrevote(s, ti) ==
    IF ti.Height # s.Height \/ ti.Round < s.Round \/ (ti.Round = s.Round /\ ti.Step < s.Step)
    THEN s
    ELSE IF ti.Step = RoundStepNewHeight THEN enterNewRound(s, ti.Height, 0)
    ELSE IF ti.Step = RoundStepPropose THEN enterPrecommit(s, ti.Height, ti.Round)
    ELSE IF ti.Step = RoundStepPrevoteWait THEN enterPrecommit(s, ti.Height, ti.Round)
    ELSE IF ti.Step = RoundStepPrecommitWait THEN enterNewRound(s, ti.Height, ti.Round + 1)
    ELSE PanicSanity(s)

\* handleTimeout(ti, rs)
handleTimeout(s, ti) ==
    IF ti.Height # s.Height \/ ti.Round < s.Round \/ (ti.Round = s.Round /\ ti.Step < s.Step)
    THEN s
    ELSE IF ti.Step = RoundStepNewHeight THEN enterNewRound(s, ti.Height, 0)
    ELSE IF ti.Step = RoundStepPropose THEN enterPrevote(s, ti.Height, ti.Round)
    ELSE IF ti.Step = RoundStepPrevoteWait THEN enterPrecommit(s, ti.Height, ti.Round)
    ELSE IF ti.Step = RoundStepPrecommitWait THEN enterNewRound(s, ti.Height, ti.Round + 1)
    ELSE PanicSanity(s)

\* faulty variant for C9: the event is recorded after its handler has run
\* the quit case of receiveRoutine: stop the WAL, close done, return
quitCase_DoneFirst(s) == [s EXCEPT !.exit = <<"close(done)", "wal.Stop">>]

quitCase(s) == [s EXCEPT !.exit = <<"wal.Stop", "close(done)">>]

receiveRoutine_SaveLast(s, kind, ev, applyOk) ==
    IF kind = "timeout" THEN [s |-> Emit(handleTimeout(s, ev), "wal.Save"), err |-> "nil"]
    ELSE LET r == handleMsg(s, ev, IF kind = "peer" THEN "peer" ELSE "", applyOk)
         IN [s |-> Emit(r.s, "wal.Save"), err |-> r.err]

\* receiveRoutine: one iteration of the select loop on an event of the given
\* kind ("peer", "internal", "timeout"): wal.Save first, then the handler
receiveRoutine_DropTick(s, kind, ev, applyOk) ==
    IF kind = "timeout" THEN [s |-> handleTimeout(s, ev), err |-> "nil"]
    ELSE handleMsg(Emit(s, "wal.Save"), ev, IF kind = "peer" THEN "peer" ELSE "", applyOk)

receiveRoutine(s, kind, ev, applyOk) ==
    LET s0 == Emit(s, "wal.Save")
    IN IF kind = "timeout" THEN [s |-> handleTimeout(s0, ev), err |-> "nil"]
       ELSE handleMsg(s0, ev, IF kind = "peer" THEN "peer" ELSE "", applyOk)

\* ---------------------------------------------------- messages from peers
\* a vote of a correct validator exists only if that validator signed it
SignedBy(v, type, height, round, blockID) ==
    v \notin correct
    \/ [Type |-> type, ValidatorIndex |-> v, Height |-> height, Round |-> round,
        BlockID |-> blockID, SigOK |-> TRUE] \in cs[v].signed

\* proposals on the wire: any proposal a Byzantine proposer signs, and the
\* proposals correct proposers did sign
PeerProposals(h) ==
    {p \in [Height : {h}, Round : {0}, BlockID : Blocks, POLRound : {-1},
            Signer : {GetProposer(h, 0)}]
           \cup [Height : {h}, Round : {0}, BlockID : {"B1"}, POLRound : {-1},
                 Signer : Val \ {GetProposer(h, 0)}]
           \cup {[Height |-> h, Round |-> 0, BlockID |-> "B1", POLRound |-> 0,
                  Signer |-> GetProposer(h, 0)],
                 [Height |-> h + 1, Round |-> 0, BlockID |-> "B1", POLRound |-> -1,
                  Signer |-> GetProposer(h, 0)]} :
        p.Signer \in correct => p \in cs[p.Signer].proposed}

PeerParts(h) ==
    [Height : {h}, Round : {0}, Block : Blocks, Index : PartIdx, ProofOK : {TRUE}]
    \cup {[Height |-> h, Round |-> 0, Block |-> "B1", Index |-> 0, ProofOK |-> FALSE]}

\* the votes a Byzantine validator v puts on the wire: validator 3 (half of
\* the power) votes for "B1" or nil, the others send votes that are refused
ByzVotes(v, h) ==
    IF v = 3
    THEN [Type : {VoteTypePrevote}, ValidatorIndex : {v}, Height : {h}, Round : {0},
          BlockID : {"B1", NilBlockID}, SigOK : {TRUE}]
         \cup {[Type |-> VoteTypePrecommit, ValidatorIndex |-> v, Height |-> h, Round |-> 0,
                BlockID |-> "B1", SigOK |-> TRUE]}
    ELSE {[Type |-> VoteTypePrevote, ValidatorIndex |-> v, Height |-> h, Round |-> 0,
           BlockID |-> "B1", SigOK |-> FALSE],
          [Type |-> VoteTypePrevote, ValidatorIndex |-> v, Height |-> h, Round |-> 1,
           BlockID |-> "B1", SigOK |-> TRUE],
          [Type |-> VoteTypePrecommit, ValidatorIndex |-> v, Height |-> h + 1, Round |-> 0,
           BlockID |-> "B1", SigOK |-> TRUE]}

PeerVotes(h) ==
    UNION {IF v \in correct
           THEN {x \in cs[v].signed : x.Height = h}
           ELSE ByzVotes(v, h) : v \in Val}

\* the BlockIDs an aggregate over the bitmap can carry with a valid signature:
\* one that every correct validator of the bitmap signed a vote for; Byzantine
\* validators sign whatever is asked ("B1" stands for their choice)
SignableBlockIDs(bits, type, h) ==
    IF bits \cap correct = {} THEN {"B1"}
    ELSE {b \in BlockIDs : \A v \in bits : SignedBy(v, type, h, 0, b)}

MkSignAggr(h, round, type, size, blockID, bits, sig, maj23) ==
    [Height |-> h, Round |-> round, Type |-> type, Size |-> size, BlockID |-> blockID,
     BitArray |-> bits, Sig |-> sig, Maj23 |-> maj23]

\* the aggregates a Byzantine peer can build; Maj23 is free.  {1, 3} holds 3/4
\* of the power, {3} is short of the quorum
PeerAggrs(h) ==
    {MkSignAggr(h, 0, x[1], Cardinality(Val), x[2], {1, 3}, "ok", x[3]) :
        x \in {y \in {VoteTypePrevote, VoteTypePrecommit} \X BlockIDs \X BlockIDs :
                  y[2] \in SignableBlockIDs({1, 3}, y[1], h)}}
    \cup {MkSignAggr(h, 0, x[1], Cardinality(Val), x[2], {3}, "ok", "B1") :
        x \in {y \in {VoteTypePrevote, VoteTypePrecommit} \X BlockIDs :
                  y[2] \in SignableBlockIDs({3}, y[1], h)}}
    \cup {MkSignAggr(h, 0, VoteTypePrevote, Cardinality(Val), "B1", {1, 3}, "bad", "B1"),
          MkSignAggr(h, 0, VoteTypePrevote, Cardinality(Val), "B1", {1, 3}, "nil", "B1"),
          MkSignAggr(h, 0, VoteTypePrevote, Cardinality(Val), "B1", {}, "ok", "B1"),
          MkSignAggr(h, 1, VoteTypePrevote, Cardinality(Val), "B1", {1, 3}, "bad", "B1")}
    \cup {MkSignAggr(h, 0, x[1], x[2], b, {1, 3}, "ok", "B1") :
        x \in {<<"other", Cardinality(Val)>>,
               <<VoteTypePrecommit, Cardinality(Val) + 1>>},
        b \in SignableBlockIDs({1, 3}, VoteTypePrevote, h)}

\* the wire of the two-validator network: the Byzantine proposer equivocates,
\* serves the parts of both blocks and aggregates its own signature with the
\* ones validator 3 made
NetMsgs(h) ==
    {ProposalMessage(p) : p \in {q \in PeerProposals(h) : q.Height = h /\ q.POLRound = -1
                                                         /\ q.Signer = GetProposer(h, 0)}}
    \cup {BlockPartMessage(bp) : bp \in {q \in PeerParts(h) : q.ProofOK}}
    \cup {Maj23SignAggrMessage(a) : a \in {q \in PeerAggrs(h) :
              q.BitArray = {1, 3} /\ q.BlockID = "B1" /\ q.Sig = "ok" /\ q.Round = 0
              /\ q.Size = Cardinality(Val) /\ q.Maj23 \in Blocks
              /\ q.Type \in {VoteTypePrevote, VoteTypePrecommit}}}

PeerMsgs(h) ==
    {ProposalMessage(p) : p \in PeerProposals(h)}
    \cup {BlockPartMessage(bp) : bp \in PeerParts(h)}
    \cup {VoteMessage(v) : v \in PeerVotes(h)}
    \cup {Maj23SignAggrMessage(a) : a \in PeerAggrs(h)}

\* ------------------------------------------------------------------- Init
\* NewConsensusState at genesis (state.LastBlockHeight = 0) followed by
\* OnStart's scheduleRound0
NewConsensusState(n) ==
    [me |-> n,
     Height |-> 1, Round |-> 0, Step |-> RoundStepNewHeight,
     Proposal |-> <<>>, ProposalBlock |-> NoBlock, ProposalBlockParts |-> NilParts,
     LockedRound |-> 0, LockedBlock |-> NoBlock, LockedBlockParts |-> NilParts,
     Votes |-> NewHeightVoteSet, VoteSignAggr |-> NewHeightVoteSignAggr,
     CommitRound |-> -1, LastCommit |-> NoAggr,
     PrevoteMaj23SignAggr |-> NoAggr, PrecommitMaj23SignAggr |-> NoAggr,
     stateLastBlockHeight |-> 0,
     blockStore |-> <<>>,
     internalMsgQueue |-> <<>>, goSends |-> {},
     timeout |-> <<[Height |-> 1, Round |-> 0, Step |-> RoundStepNewHeight]>>,
     signed |-> {}, proposed |-> {}, fired |-> {},
     panicked |-> FALSE,
     quit |-> FALSE,          \* the Quit channel is closed
     exit |-> <<>>,           \* what the quit case of receiveRoutine did, in order
     lastStep |-> [op |-> "wal.NewRoundStep", H |-> 1, R |-> 0, S |-> RoundStepNewHeight],
     ops |-> <<>>]

\* one validator under test, every other validator Byzantine: validator 1,
\* the proposer of height 1 round 0, or validator 2, whose proposer is Byzantine
Init ==
    /\ correct \in {{1}, {2}}
    /\ cs = [n \in correct |-> NewConsensusState(n)]

\* two correct validators; validator 1 (1/4 of the power, the proposer of
\* height 1 round 0) is Byzantine
InitNet ==
    /\ correct = {2, 3}
    /\ cs = [n \in correct |-> NewConsensusState(n)]

\* ---------------------------------------------------------------- actions
\* the process of validator n is up; its receive routine is in its loop
Alive(n) == n \in correct /\ ~cs[n].panicked /\ cs[n].Height <= MaxHeight
Running(n) == Alive(n) /\ cs[n].exit = <<>>

\* the runs of one iteration of receiveRoutine that validator n can make in
\* the current state, each [kind, ev, pre, post, err]: pre is the state the
\* handler starts from, post.ops lists its side effects in program order
Run(kind, ev, pre, applyOk) ==
    LET r == receiveRoutine(pre, kind, ev, applyOk)
    IN [kind |-> kind, ev |-> <<ev>>, pre |-> pre, post |-> r.s, err |-> r.err]

ApplyOutcomes(mi) == IF mi.kind = "aggr" THEN BOOLEAN ELSE {TRUE}

PeerRuns(n, msgs) ==
    {Run("peer", x[1], cs[n], x[2]) :
        x \in {y \in msgs \X BOOLEAN : y[2] \in ApplyOutcomes(y[1])}}

InternalRuns(n) ==
    IF cs[n].internalMsgQueue = <<>> THEN {}
    ELSE LET mi == Head(cs[n].internalMsgQueue)
             s == [cs[n] EXCEPT !.internalMsgQueue = Tail(@)]
         IN {Run("internal", mi, s, applyOk) : applyOk \in ApplyOutcomes(mi)}

TimeoutRuns(n) ==
    IF cs[n].timeout = <<>> THEN {}
    ELSE LET ti == cs[n].timeout[1]
             s == [cs[n] EXCEPT !.timeout = <<>>]
         IN IF ti.Step = RoundStepPrecommitWait /\ ti.Round >= MaxRound THEN {}
            ELSE {Run("timeout", ti, s, TRUE)}

Commit(n, run) ==
    /\ cs' = [cs EXCEPT ![n] = [run.post EXCEPT !.ops = <<>>]]
    /\ UNCHANGED correct

\* case mi = <-cs.peerMsgQueue
ReceivePeerMsg(n) ==
    /\ Running(n)
    /\ \E run \in PeerRuns(n, PeerMsgs(cs[n].Height)) : Commit(n, run)

\* the same case, on the wire of the two-validator network
ReceiveNetMsg(n) ==
    /\ Running(n)
    /\ \E run \in PeerRuns(n, NetMsgs(cs[n].Height)) : Commit(n, run)

\* case mi = <-cs.internalMsgQueue
ReceiveInternalMsg(n) ==
    /\ Running(n)
    /\ \E run \in InternalRuns(n) : Commit(n, run)

\* case ti := <-cs.timeoutTicker.Chan()
ReceiveTimeout(n) ==
    /\ Running(n)
    /\ \E run \in TimeoutRuns(n) : Commit(n, run)

\* the one-shot go-routine of sendInternalMessage gets its message in
GoSend(n) ==
    /\ Alive(n)
    /\ Len(cs[n].internalMsgQueue) < MaxQueue
    /\ \E mi \in cs[n].goSends :
          /\ cs' = [cs EXCEPT ![n].internalMsgQueue = Append(@, mi),
                              ![n].goSends = @ \ {mi}]
          /\ UNCHANGED correct

Next ==
    \/ \E n \in correct : ReceivePeerMsg(n)
    \/ \E n \in correct : ReceiveInternalMsg(n)
    \/ \E n \in correct : ReceiveTimeout(n)
    \/ \E n \in correct : GoSend(n)

NextNet ==
    \/ \E n \in correct : ReceiveNetMsg(n)
    \/ \E n \in correct : ReceiveInternalMsg(n)
    \/ \E n \in correct : ReceiveTimeout(n)
    \/ \E n \in correct : GoSend(n)

\* ------------------------------------------------------- votes of peers
\* every vote the other validators can sign at round 0 of the height
AllPeerVotes(h) ==
    [Type : {VoteTypePrevote, VoteTypePrecommit}, ValidatorIndex : Val \ correct,
     Height : {h}, Round : {0}, BlockID : BlockIDs, SigOK : {TRUE}]

\* case mi = <-cs.peerMsgQueue, the message being a vote
ReceiveVoteMsg(n) ==
    /\ Running(n)
    /\ \E run \in PeerRuns(n, {VoteMessage(v) : v \in AllPeerVotes(cs[n].Height)}) :
          Commit(n, run)

NextVotes ==
    \/ \E n \in correct : ReceiveVoteMsg(n)
    \/ \E n \in correct : ReceiveInternalMsg(n)
    \/ \E n \in correct : ReceiveTimeout(n)
    \/ \E n \in correct : GoSend(n)

\* ------------------------------------------------------------ WAL replay
\* A second copy of the validator that is fed, in the same order, the events
\* the running copy takes from its queues and its ticker (what receiveRoutine
\* records with wal.Save).  The copy's own queue is never read and its ticker
\* is ignored, so its self-sent messages pile up and overflow.
Replica == 0

InitReplay ==
    /\ correct \in {{1}, {2}}
    /\ cs = [n \in correct \cup {Replica} |->
                NewConsensusState(CHOOSE v \in correct : TRUE)]

Replay(n, kind, ev, pre, applyOk) ==
    /\ cs' = [cs EXCEPT
                ![n] = [receiveRoutine(pre, kind, ev, applyOk).s EXCEPT !.ops = <<>>],
                ![Replica] = [receiveRoutine(cs[Replica], kind, ev, applyOk).s
                                 EXCEPT !.ops = <<>>]]
    /\ UNCHANGED correct

ReplayPeerMsg(n) ==
    /\ Running(n)
    /\ \E mi \in PeerMsgs(cs[n].Height) : \E applyOk \in ApplyOutcomes(mi) :
          Replay(n, "peer", mi, cs[n], applyOk)

ReplayInternalMsg(n) ==
    /\ Running(n)
    /\ cs[n].internalMsgQueue # <<>>
    /\ LET mi == Head(cs[n].internalMsgQueue)
       IN \E applyOk \in ApplyOutcomes(mi) :
             Replay(n, "internal", mi, [cs[n] EXCEPT !.internalMsgQueue = Tail(@)], applyOk)

ReplayTimeout(n) ==
    /\ Running(n)
    /\ cs[n].timeout # <<>>
    /\ ~(cs[n].timeout[1].Step = RoundStepPrecommitWait /\ cs[n].timeout[1].Round >= MaxRound)
    /\ Replay(n, "timeout", cs[n].timeout[1], [cs[n] EXCEPT !.timeout = <<>>], TRUE)

NextReplay ==
    \/ \E n \in correct : ReplayPeerMsg(n)
    \/ \E n \in correct : ReplayInternalMsg(n)
    \/ \E n \in correct : ReplayTimeout(n)
    \/ \E n \in correct : GoSend(n)

\* ------------------------------------------- four correct validators
\* Four validators of equal power, all running this code.  A proposal, its
\* block part and every aggregate are published to all peers; a vote is sent to
\* the proposer only (FireEventVote2Proposer).  Messages of different senders
\* arrive in any order, those of one sender in the order they were sent.  The
\* application applies every block, and the propose timeout does not expire
\* before the proposal arrived.
AllVal == 1..4

InitHappy ==
    /\ correct = AllVal
    /\ cs = [n \in correct |-> NewConsensusState(n)]

PartOf(p) ==
    [Height |-> p.Height, Round |-> p.Round, Block |-> p.BlockID, Index |-> 0,
     ProofOK |-> TRUE]

\* the messages of validator m that validator n can receive next
Broadcast(m, n) ==
    {ProposalMessage(p) : p \in cs[m].proposed}
    \cup {BlockPartMessage(PartOf(p)) : p \in {x \in cs[m].proposed : cs[n].Proposal # <<>>}}
    \cup {VoteMessage(v) : v \in {x \in cs[m].signed :
              /\ n = GetProposer(x.Height, x.Round)
              /\ x.Type = VoteTypePrecommit =>
                     VotesOf(cs[n].Votes, VoteTypePrevote, x.Round)[m] # NoVote}}
    \cup {Maj23SignAggrMessage(a) : a \in {x \in cs[m].fired :
              /\ cs[m].proposed # {} => cs[n].ProposalBlock # NoBlock
              /\ x.Type = VoteTypePrecommit => cs[n].PrevoteMaj23SignAggr # NoAggr}}

\* what validator n holds after handling event ev
After(n, kind, ev, pre) == [receiveRoutine(pre, kind, ev, TRUE).s EXCEPT !.ops = <<>>]

Handle(n, kind, ev, pre) ==
    /\ cs' = [cs EXCEPT ![n] = After(n, kind, ev, pre)]
    /\ UNCHANGED correct

\* the timer of validator n expires: in the happy path only the NewHeight
\* timer does, the propose timer is still pending when the height is left
TimerDue(n) == cs[n].timeout # <<>> /\ cs[n].timeout[1].Step = RoundStepNewHeight

\* validator m has nothing left to do: it left the height, or its queues are
\* empty, no timer expires and no message sent to it changes what it holds
Idle(m) ==
    \/ ~Running(m)
    \/ /\ cs[m].internalMsgQueue = <<>>
       /\ cs[m].goSends = {}
       /\ ~TimerDue(m)
       /\ \A k \in correct \ {m} : \A mi \in Broadcast(k, m) :
              After(m, "peer", mi, cs[m]) = cs[m]

\* a validator handles its own messages before those of its peers (with the
\* queue bound MaxQueue a peer message handled in between would push the
\* validator's own messages out of the queue)
HappyPeerMsg(n) ==
    /\ Running(n)
    /\ cs[n].internalMsgQueue = <<>> /\ cs[n].goSends = {}
    /\ \E m \in correct \ {n} : \E mi \in Broadcast(m, n) : Handle(n, "peer", mi, cs[n])

HappyInternalMsg(n) ==
    /\ Running(n)
    /\ cs[n].internalMsgQueue # <<>>
    /\ Handle(n, "internal", Head(cs[n].internalMsgQueue),
              [cs[n] EXCEPT !.internalMsgQueue = Tail(@)])

HappyTimeout(n) ==
    /\ Running(n)
    /\ TimerDue(n)
    /\ Handle(n, "timeout", cs[n].timeout[1], [cs[n] EXCEPT !.timeout = <<>>])

NextHappy ==
    \/ \E n \in correct : HappyPeerMsg(n)
    \/ \E n \in correct : HappyInternalMsg(n)
    \/ \E n \in correct : HappyTimeout(n)
    \/ \E n \in correct : GoSend(n)

\* ------------------------------------------------ a locked validator
\* enterPrevote and enterPrecommit on the round states a validator can hold
\* before step Precommit of round 0: locked on a block or not, with or without
\* a proposal and its block, and with any prevote aggregate of the round; the
\* propose timer or the prevote-wait timer is about to expire
PolkaAggrs ==
    {MkSignAggr(1, 0, VoteTypePrevote, Cardinality(Val), b, bits, "ok", b) :
        b \in BlockIDs, bits \in {{1, 3}, {1, 2, 3}}}

LockedInput(step, pb, lb, sa, timer) ==
    [NewConsensusState(1) EXCEPT
        !.Step = step,
        !.Proposal = IF pb = NoBlock THEN <<>>
                     ELSE <<[Height |-> 1, Round |-> 0, BlockID |-> pb, POLRound |-> -1,
                             Signer |-> GetProposer(1, 0)]>>,
        !.ProposalBlock = pb,
        !.ProposalBlockParts = IF pb = NoBlock THEN NilParts ELSE FullPartSet(pb),
        !.LockedBlock = lb,
        !.LockedBlockParts = IF lb = NoBlock THEN NilParts ELSE FullPartSet(lb),
        !.VoteSignAggr = IF sa = NoAggr THEN @ ELSE AddSignAggr(@, sa[1]),
        !.PrevoteMaj23SignAggr = sa,
        !.timeout = <<[Height |-> 1, Round |-> 0, Step |-> timer]>>,
        !.lastStep = [op |-> "wal.NewRoundStep", H |-> 1, R |-> 0, S |-> step]]

LockedInputs ==
    {LockedInput(step, pb, lb, sa, timer) :
        step \in {RoundStepPropose, RoundStepPrevote, RoundStepPrevoteWait},
        pb \in Blocks \cup {NoBlock}, lb \in Blocks \cup {NoBlock},
        sa \in {NoAggr} \cup {<<a>> : a \in PolkaAggrs},
        timer \in {RoundStepPropose, RoundStepPrevoteWait}}

InitLocked ==
    /\ correct = {1}
    /\ cs \in [correct -> LockedInputs]

NextLocked ==
    \/ \E n \in correct : ReceiveTimeout(n)
    \/ \E n \in correct : ReceiveInternalMsg(n)

\* BLSVerifySignAggr on its own: a validator set of three positive powers whose
\* total fits the integer width, and aggregates over any bitmap of the set
PowerValues == {1, 2, 30, 40}
ValidatorSets ==
    {p \in [1..3 -> PowerValues] : p[1] + p[2] + p[3] < 2^(IntBits - 1)}
VerifyInputs ==
    {MkSignAggr(1, 0, VoteTypePrevote, 3, "B1", bits, sig, "B1") :
        bits \in SUBSET (1..3), sig \in {"ok", "bad"}}
InitVerify ==
    /\ correct = {}
    /\ cs \in {[powers |-> p, Height |-> 1, Round |-> 0, aggr |-> NoAggr,
                 result |-> [maj23 |-> FALSE, err |-> "nil"]] : p \in ValidatorSets}
Verify(a) ==
    /\ cs' = [cs EXCEPT !.aggr = <<a>>, !.result = verifyMaj23SignAggr(cs, a)]
    /\ UNCHANGED correct
NextVerify == \E a \in VerifyInputs : Verify(a)
SpecVerify == InitVerify /\ [][NextVerify]_vars

\* Stop() of the service closes the Quit channel; the select of receiveRoutine
\* takes the quit case or any other ready case
Stop(n) ==
    /\ Alive(n) /\ ~cs[n].quit
    /\ cs' = [cs EXCEPT ![n].quit = TRUE]
    /\ UNCHANGED correct
ReceiveQuit(n) ==
    /\ Running(n) /\ cs[n].quit
    /\ cs' = [cs EXCEPT ![n] = quitCase(cs[n])]
    /\ UNCHANGED correct
NextQuit ==
    \/ \E n \in correct : ReceivePeerMsg(n)
    \/ \E n \in correct : ReceiveInternalMsg(n)
    \/ \E n \in correct : ReceiveTimeout(n)
    \/ \E n \in correct : GoSend(n)
    \/ \E n \in correct : Stop(n)
    \/ \E n \in correct : ReceiveQuit(n)
SpecQuit == Init /\ [][NextQuit]_vars

\* entering a round or a height: the proposer of round 0 waiting in NewHeight,
\* with or without a prevote aggregate of validators 2 and 3 already accepted;
\* the same validator in Precommit with its own precommit aggregate queued; and
\* the proposer of round 1 at the end of round 0, waiting in PrecommitWait
EarlyPolkas ==
    {MkSignAggr(1, 0, VoteTypePrevote, Cardinality(Val), b, {2, 3}, "ok", b) : b \in Blocks}
NewHeightInput(sa) ==
    [NewConsensusState(1) EXCEPT
        !.VoteSignAggr = IF sa = NoAggr THEN @ ELSE AddSignAggr(@, sa[1]),
        !.PrevoteMaj23SignAggr = sa]
RoundEndInput(pb, lb, sa) ==
    [LockedInput(RoundStepPrecommitWait, pb, lb, sa, RoundStepPrecommitWait) EXCEPT
        !.me = 2,
        !.lastStep = [op |-> "wal.NewRoundStep", H |-> 1, R |-> 0,
                      S |-> RoundStepPrecommitWait]]
CommitInput(b, lb) ==
    [LockedInput(RoundStepPrecommit, b, lb,
                 <<MkSignAggr(1, 0, VoteTypePrevote, Cardinality(Val), b, {1, 3}, "ok", b)>>,
                 RoundStepPropose) EXCEPT
        !.internalMsgQueue =
            <<Maj23SignAggrMessage(MkSignAggr(1, 0, VoteTypePrecommit, Cardinality(Val),
                                              b, {1, 3}, "ok", b))>>,
        !.lastStep = [op |-> "wal.NewRoundStep", H |-> 1, R |-> 0,
                      S |-> RoundStepPrecommit]]
RoundInputs(n) ==
    IF n = 1 THEN {NewHeightInput(sa) : sa \in {NoAggr} \cup {<<a>> : a \in EarlyPolkas}}
                  \cup {CommitInput(b, b) : b \in Blocks}
                  \cup {CommitInput(b, NoBlock) : b \in Blocks}
    ELSE {RoundEndInput(pb, lb, sa) :
             pb \in Blocks \cup {NoBlock}, lb \in Blocks \cup {NoBlock},
             sa \in {NoAggr} \cup {<<a>> : a \in PolkaAggrs}}
InitRound ==
    /\ correct \in {{1}, {2}}
    /\ cs \in [correct -> UNION {RoundInputs(n) : n \in correct}]
NextRound ==
    \/ \E n \in correct : ReceiveTimeout(n)
    \/ \E n \in correct : ReceiveInternalMsg(n)
    \/ \E n \in correct : GoSend(n)
SpecRound == InitRound /\ [][NextRound]_vars

\* a validator restarted after a crash between SaveBlock and the EndHeight
\* record: the consensus state is that of the start of the height, the block
\* store already holds a block for it, and the messages are fed again
InitCrash ==
    /\ correct \in {{1}, {2}}
    /\ cs \in [correct -> {[NewConsensusState(n) EXCEPT !.blockStore = <<b>>] :
                               n \in correct, b \in Blocks}]
    /\ \A n \in correct : cs[n].me = n
SpecCrash == InitCrash /\ [][Next]_vars

Spec == Init /\ [][Next]_vars
SpecReplay == InitReplay /\ [][NextReplay]_vars
SpecVotes == Init /\ [][NextVotes]_vars
SpecHappy == InitHappy /\ [][NextHappy]_vars

\* the select of receiveRoutine takes a message of the internal queue as long
\* as there is one (weak fairness of ReceiveInternalMsg, written with its
\* enabling condition), and a one-shot sender parked on the full channel is
\* served by one of the receives that make room (strong fairness of GoSend)
CanReceive(n) == n \in correct /\ Running(n) /\ cs[n].internalMsgQueue # <<>>
Fairness ==
    \A n \in 1..3 :
        /\ []<>(~CanReceive(n)) \/ []<><<ReceiveInternalMsg(n)>>_vars
        /\ SF_vars(GoSend(n))
SpecFair == Spec /\ Fairness
SpecLocked == InitLocked /\ [][NextLocked]_vars
SpecNet == InitNet /\ [][NextNet]_vars

\* ----------------------------------------------------------- properties
\* every run of receiveRoutine validator n can make in the current state
Runs(n) ==
    IF Running(n)
    THEN PeerRuns(n, PeerMsgs(cs[n].Height)) \cup InternalRuns(n) \cup TimeoutRuns(n)
    ELSE {}

\* the places of the side effect `name` in the program order of a run
Positions(run, name) == {i \in 1..Len(run.post.ops) : run.post.ops[i].op = name}
Did(run, name) == Positions(run, name) # {}
Before(run, a, b) == \A i \in Positions(run, a) : \A j \in Positions(run, b) : i < j

\* the RoundState of a ConsensusState record: everything but the side-effect list
Untraced(s) == [s EXCEPT !.ops = <<>>]

\* C1: no two correct validators finalize different blocks at the same height
\* (the block store of a validator holds the block it finalized at each height)
C1_Agreement ==
    \A n \in correct : \A m \in correct :
        \A h \in 1..MaxHeight :
            (Len(cs[n].blockStore) >= h /\ Len(cs[m].blockStore) >= h)
                => cs[n].blockStore[h] = cs[m].blockStore[h]

\* C2: in every run of the receive routine cs.Height stays or goes up by exactly
\* one, and it goes up only in a run whose finalizeCommit applied the block
C2_HeightMonotone ==
    \A n \in correct : \A run \in Runs(n) :
        \/ run.post.Height = run.pre.Height
        \/ /\ run.post.Height = run.pre.Height + 1
           /\ Did(run, "ApplyBlock")
           /\ run.post.stateLastBlockHeight = run.pre.Height

C2_Witness ==
    \E n \in correct : cs[n].Height = 2 /\ Len(cs[n].blockStore) = 1

\* the NewRoundStep records of a run, after the last one written before it
StepRecords(run) ==
    <<run.pre.lastStep>>
    \o SelectSeq(run.post.ops, LAMBDA o : o.op = "wal.NewRoundStep")

StepOrdered(a, b) ==
    \/ a.H < b.H
    \/ a.H = b.H /\ a.R < b.R
    \/ a.H = b.H /\ a.R = b.R /\ a.S < b.S

\* C3: consecutive NewRoundStep records go up in (height, round, step) order,
\* so at one (height, round) the step strictly increases, and the step a run
\* leaves behind is never below the one it started from at the same
\* (height, round)
C3_StepMonotone ==
    \A n \in correct : \A run \in Runs(n) :
        /\ \A i \in 1..(Len(StepRecords(run)) - 1) :
               StepOrdered(StepRecords(run)[i], StepRecords(run)[i + 1])
        /\ (run.post.Height = run.pre.Height /\ run.post.Round = run.pre.Round)
               => run.post.Step >= run.pre.Step
        /\ run.post.lastStep = [op |-> "wal.NewRoundStep", H |-> run.post.Height,
                                R |-> run.post.Round, S |-> run.post.Step]

C3_Witness ==
    \E n \in correct : cs[n].Step = RoundStepCommit /\ cs[n].lastStep.S = RoundStepCommit

\* C4: a run assigns CommitRound at most once and never when it is already
\* set, CommitRound keeps its value until the height changes, and a run that
\* saves a block leaves a precommit aggregate at CommitRound (LastCommit once
\* the height has advanced) with +2/3 of the power whose majority is that block
FinalizedAggr(run) ==
    IF run.post.Height = run.pre.Height
    THEN AggrOf(run.post.VoteSignAggr, VoteTypePrecommit, run.post.CommitRound)
    ELSE run.post.LastCommit

C6_ProposalValid ==
    \A n \in correct :
        /\ cs[n].Proposal # <<>> =>
               /\ cs[n].Proposal[1].Height = cs[n].Height
               /\ cs[n].Proposal[1].Round = cs[n].Round
               /\ \/ cs[n].Proposal[1].POLRound = -1
                  \/ /\ 0 <= cs[n].Proposal[1].POLRound
                     /\ cs[n].Proposal[1].POLRound < cs[n].Proposal[1].Round
        /\ \A run \in Runs(n) :
               (run.post.Proposal # <<>> /\ run.post.Proposal # run.pre.Proposal) =>
                   /\ run.pre.Proposal = <<>>
                   /\ run.pre.Step < RoundStepCommit
                   /\ run.ev[1] = ProposalMessage(run.post.Proposal[1])

C6_Witness ==
    \E n \in correct : cs[n].Proposal # <<>> /\ cs[n].Proposal[1].Signer # n

\* C7: a run on a proposal message that newSetProposal refuses with
\* ErrInvalidProposalSignature or ErrInvalidProposalPOLRound leaves the whole
\* ConsensusState as it was (RoundState, queues, signed votes) and has no side
\* effect but the WAL record of the message
C7_RejectedProposal ==
    \A n \in correct : \A run \in Runs(n) :
        run.err \in {"ErrInvalidProposalSignature", "ErrInvalidProposalPOLRound"} =>
            /\ Untraced(run.post) = Untraced(run.pre)
            /\ ~Did(run, "signVote")
            /\ Len(run.post.ops) = 1

C7_Witness ==
    \E n \in correct :
        /\ cs[n].Step = RoundStepPropose
        /\ cs[n].Proposal = <<>>
        /\ \E run \in Runs(n) : run.err = "ErrInvalidProposalPOLRound"
        /\ \E run \in Runs(n) : run.err = "ErrInvalidProposalSignature"

\* C8: a run on a sign-aggregate message that setMaj23SignAggr refuses
\* (ErrInvalidSignatureAggr: bad signature, power short of the quorum, unknown
\* type; ErrDuplicateSignatureAggr) leaves the whole ConsensusState as it was
C8_RejectedSignAggr ==
    \A n \in correct : \A run \in Runs(n) :
        (run.kind # "timeout" /\ run.ev[1].kind = "aggr"
         /\ run.err \in {"ErrInvalidSignatureAggr", "ErrDuplicateSignatureAggr"}) =>
            /\ Untraced(run.post) = Untraced(run.pre)
            /\ Len(run.post.ops) = 1

C8_Witness ==
    \E n \in correct :
        /\ cs[n].PrevoteMaj23SignAggr # NoAggr
        /\ cs[n].Step = RoundStepPrecommit
        /\ \E run \in Runs(n) : run.err = "ErrDuplicateSignatureAggr"
        /\ \E run \in Runs(n) :
               /\ run.err = "ErrInvalidSignatureAggr"
               /\ run.ev[1].body.Sig = "ok"
               /\ run.ev[1].body.Type = VoteTypePrecommit
               /\ run.ev[1].body.Size = Cardinality(Val)

\* C9: every run writes exactly one WAL record of the consumed event, as its
\* first effect and in the (height, round, step) the event was taken in, so
\* the record precedes every step record, signature, block save and apply of
\* the run
C9_WalFirst ==
    \A n \in correct : \A run \in Runs(n) :
        /\ Positions(run, "wal.Save") = {1}
        /\ run.post.ops[1] = Op("wal.Save", run.pre)
        /\ Before(run, "wal.Save", "SaveBlock")
        /\ Before(run, "wal.Save", "ApplyBlock")

C9_Witness ==
    \E n \in correct : \E run \in Runs(n) :
        Did(run, "SaveBlock") /\ Did(run, "ApplyBlock") /\ run.kind = "peer"

\* C10: in a run that finalizes, the seen-commit is built before the block is
\* saved, the block is saved before the EndHeight record is written, and the
\* EndHeight record is written before ApplyBlock is called
C10_FinalizeOrder ==
    \A n \in correct : \A run \in Runs(n) :
        /\ Did(run, "SaveBlock") => Did(run, "MakeCommit")
        /\ Did(run, "ApplyBlock") => Did(run, "wal.EndHeight")
        /\ Before(run, "MakeCommit", "SaveBlock")
        /\ Before(run, "SaveBlock", "wal.EndHeight")
        /\ Before(run, "wal.EndHeight", "ApplyBlock")

C10_Witness ==
    \E n \in correct : \E run \in Runs(n) :
        /\ Did(run, "MakeCommit") /\ Did(run, "SaveBlock")
        /\ Did(run, "wal.EndHeight") /\ Did(run, "ApplyBlock")
        /\ run.post.Height = run.pre.Height + 1

\* C11 (as the code has it): the EndHeight record of height h is written only
\* once the block store holds the block of h, and before ApplyBlock is called
\* for it: no ApplyBlock precedes the record in the run
C11_EndHeightAfterSave ==
    \A n \in correct : \A run \in Runs(n) :
        \A i \in Positions(run, "wal.EndHeight") :
            /\ run.post.ops[i].H = run.pre.Height
            /\ \/ Len(run.pre.blockStore) >= run.pre.Height
               \/ \E j \in Positions(run, "SaveBlock") : j < i
            /\ \A j \in Positions(run, "ApplyBlock") : i < j

\* C11 as stated: the EndHeight record is written after the block was saved
\* and after the application applied it
C11_EndHeightAfterApply ==
    \A n \in correct : \A run \in Runs(n) :
        \A i \in Positions(run, "wal.EndHeight") :
            /\ \E j \in Positions(run, "SaveBlock") : j < i
            /\ \E j \in Positions(run, "ApplyBlock") : j < i

C11_Witness ==
    \E n \in correct : \E run \in Runs(n) :
        /\ Did(run, "wal.EndHeight") /\ Did(run, "SaveBlock")
        /\ run.post.Height = run.pre.Height
        /\ run.post.Step = RoundStepCommit

\* the RoundState of a ConsensusState, StartTime and CommitTime left out
RoundStateOf(s) ==
    [Height |-> s.Height, Round |-> s.Round, Step |-> s.Step,
     Proposal |-> s.Proposal, ProposalBlock |-> s.ProposalBlock,
     ProposalBlockParts |-> s.ProposalBlockParts,
     LockedRound |-> s.LockedRound, LockedBlock |-> s.LockedBlock,
     LockedBlockParts |-> s.LockedBlockParts,
     Votes |-> s.Votes, VoteSignAggr |-> s.VoteSignAggr,
     CommitRound |-> s.CommitRound, LastCommit |-> s.LastCommit,
     PrevoteMaj23SignAggr |-> s.PrevoteMaj23SignAggr,
     PrecommitMaj23SignAggr |-> s.PrecommitMaj23SignAggr]

SelfSentAggrs(s) ==
    {mi.body : mi \in {x \in {s.internalMsgQueue[i] : i \in 1..Len(s.internalMsgQueue)}
                              \cup s.goSends : x.kind = "aggr"}}

\* C13: every aggregate sendMaj23SignAggr builds (from a vote set that has a
\* +2/3 majority) passes BLSVerifySignAggr with maj23 true, also when the set
\* holds votes for other BlockIDs or for nil
C13_RoundTrip ==
    \A n \in correct : \A a \in SelfSentAggrs(cs[n]) :
        BLSVerifySignAggr(cs[n], a) = [maj23 |-> TRUE, err |-> "nil"]


\* no validator has anything left to do: no step of NextHappy changes the
\* state, and a behaviour that has reached such a state stays in it
Quiescent == \A n \in AllVal : Idle(n)

\* validator n went through height 1 with block b: it signed a prevote and a
\* precommit for b, stored b, and waits at height 2 in step NewHeight
VotedFor(n, type, b) ==
    \E v \in cs[n].signed :
        v.Type = type /\ v.Height = 1 /\ v.Round = 0 /\ v.BlockID = b

Finalized(n, b) ==
    /\ VotedFor(n, VoteTypePrevote, b)
    /\ VotedFor(n, VoteTypePrecommit, b)
    /\ Len(cs[n].blockStore) >= 1 /\ cs[n].blockStore[1] = b
    /\ cs[n].Height = 2
    /\ cs[n].Step = RoundStepNewHeight

AllFinalized == \E b \in Blocks : \A n \in AllVal : Finalized(n, b)

C15_LastCommitAll ==
    \A b \in Blocks :
        (\A n \in AllVal : Finalized(n, b)) =>
            \A n \in AllVal :
                /\ cs[n].LastCommit # NoAggr
                /\ cs[n].LastCommit[1].BlockID = b
                /\ cs[n].LastCommit[1].BitArray = AllVal

\* an aggregate for the current height and round whose signature verifies and
\* whose bitmap holds less than the quorum: verification returns (false, nil)
ShortOfQuorum(s, a) ==
    /\ a.Height = s.Height /\ a.Round = s.Round
    /\ BLSVerifySignAggr(s, a) = [maj23 |-> FALSE, err |-> "nil"]

\* C16: an aggregate with a valid signature and a bitmap short of the quorum
\* is rejected with the error NotMaj23SignatureAggr and changes nothing
C16_NotMaj23 ==
    \A n \in correct : \A run \in Runs(n) :
        (run.kind # "timeout" /\ run.ev[1].kind = "aggr"
         /\ ShortOfQuorum(run.pre, run.ev[1].body)) =>
            /\ run.err = "ErrNotMaj23SignatureAggr"
            /\ Untraced(run.post) = Untraced(run.pre)

\* a run in which a validator locked on a block enters Precommit while the
\* prevote aggregate of the round has nil as its +2/3 majority
EntersPrecommit(run) ==
    \E i \in Positions(run, "wal.NewRoundStep") :
        /\ run.post.ops[i].S = RoundStepPrecommit
        /\ run.post.ops[i].H = run.pre.Height /\ run.post.ops[i].R = run.pre.Round

NilPolkaWhileLocked(run) ==
    /\ run.pre.LockedBlock # NoBlock
    /\ EntersPrecommit(run)
    /\ AggrTwoThirdsMajority(AggrOf(run.pre.VoteSignAggr, VoteTypePrevote, run.pre.Round))
           = [blockID |-> NilBlockID, ok |-> TRUE]

SignsNilPrecommit(run) ==
    run.post.signed \ run.pre.signed =
        {[Type |-> VoteTypePrecommit, ValidatorIndex |-> run.pre.me, Height |-> run.pre.Height,
          Round |-> run.pre.Round, BlockID |-> NilBlockID, SigOK |-> TRUE]}

EntersPrevote(run) ==
    \E i \in Positions(run, "wal.NewRoundStep") :
        /\ run.post.ops[i].S = RoundStepPrevote
        /\ run.post.ops[i].H = run.pre.Height /\ run.post.ops[i].R = run.pre.Round

PrevoteRule(run) ==
    IF run.pre.LockedBlock # NoBlock THEN run.pre.LockedBlock
    ELSE IF run.post.Proposal = <<>> THEN NilBlockID
    ELSE run.post.Proposal[1].BlockID

ApplyFails(run) ==
    /\ run.kind # "timeout"
    /\ Did(run, "ApplyBlock")
    /\ run.post = receiveRoutine(run.pre, run.kind, run.ev[1], FALSE).s

\* C19: when ApplyBlock returns an error in finalizeCommit the validator does
\* not advance: the height stays, the step stays Commit, nothing of
\* updateToStateAndEpoch is done and no timeout is scheduled
C19_ApplyError ==
    \A n \in correct : \A run \in Runs(n) :
        ApplyFails(run) =>
            /\ run.post.Height = run.pre.Height
            /\ run.post.Step = RoundStepCommit
            /\ run.post.lastStep.S = RoundStepCommit
            /\ run.post.stateLastBlockHeight = run.pre.stateLastBlockHeight
            /\ run.post.CommitRound = run.pre.Round
            /\ run.post.LastCommit = run.pre.LastCommit
            /\ run.post.Votes = run.pre.Votes
            /\ run.post.timeout = run.pre.timeout

C19_Witness ==
    \E n \in correct : \E run \in Runs(n) :
        /\ ApplyFails(run)
        /\ run.pre.Step < RoundStepCommit
        /\ Len(run.post.blockStore) = run.pre.Height
        /\ run.post.Step = RoundStepCommit

\* a handler that starts with a full internal queue leaves the queue as it is
\* and hands every message it self-sends to a one-shot sender
FullQueueDefers(n) ==
    \A run \in Runs(n) :
        (run.kind # "internal" /\ Len(run.pre.internalMsgQueue) = MaxQueue) =>
            /\ run.post.internalMsgQueue = run.pre.internalMsgQueue
            /\ \A v \in run.post.signed \ run.pre.signed : VoteMessage(v) \in run.post.goSends
            /\ \A p \in run.post.proposed \ run.pre.proposed : ProposalMessage(p) \in run.post.goSends
            /\ \A a \in run.post.fired \ run.pre.fired : Maj23SignAggrMessage(a) \in run.post.goSends

\* a message leaves the one-shot senders only by being put at the end of the
\* internal queue
SenderEnqueues ==
    \A n \in correct : \A mi \in cs[n].goSends \ cs'[n].goSends :
        cs'[n].internalMsgQueue = Append(cs[n].internalMsgQueue, mi)

Drained(n) == n \in correct => (cs[n].goSends = {} \/ ~Running(n))

\* C20: a self-send never blocks the receive routine: with a full queue the
\* handler goes on and the message is kept by a one-shot sender, which puts
\* it into the queue later, while the validator runs
C20_SelfSendNeverBlocks ==
    /\ [](\A n \in correct : FullQueueDefers(n))
    /\ [][SenderEnqueues]_vars
    /\ \A n \in 1..3 : []<>Drained(n)

\* the own block part, self-sent before the prevote, is put into the queue
\* after the prevote was handled
C20_Witness ==
    \E n \in correct :
        /\ cs[n].internalMsgQueue # <<>>
        /\ Head(cs[n].internalMsgQueue).kind = "part"
        /\ cs[n].proposed # {}
        /\ VotesOf(cs[n].Votes, VoteTypePrevote, 0)[n] # NoVote
        /\ cs[n].goSends = {}

\* what GetRoundState, which copies RoundState under cs.mtx, returns to
\* another goroutine once the handler of the run has released cs.mtx for the
\* last time; handleTimeout holds the mutex until it returns
Released(run) ==
    IF run.kind = "timeout" THEN RoundStateOf(run.post)
    ELSE RoundStateOf(AtLastUnlock(Emit(run.pre, "wal.Save"), run.ev[1],
                                   IF run.kind = "peer" THEN "peer" ELSE "",
                                   ~ApplyFails(run)))

\* C21: every change of RoundState by the receive routine is made while cs.mtx
\* is held: the RoundState at the handler's last Unlock is the one the handler
\* ends with, so no snapshot lies between the installation of a proposal and
\* the step change to Prevote
C21_MutationsUnderMutex ==
    \A n \in correct : \A run \in Runs(n) : Released(run) = RoundStateOf(run.post)

\* the run handles a proposal message; setProposal installs its proposal
OnProposal(run) == run.kind # "timeout" /\ run.ev[1].kind = "proposal"
Installs(run) ==
    /\ run.pre.Proposal = <<>>
    /\ run.post.Proposal = <<run.ev[1].body>>

\* C22: a proposal message moves the validator into Prevote only if its
\* proposal was installed; one that is not installed changes no step and has
\* no vote signed
C22_PrevoteOnInstalledProposal ==
    \A n \in correct : \A run \in Runs(n) :
        (OnProposal(run) /\ ~Installs(run)) =>
            /\ run.post.Step = run.pre.Step
            /\ run.post.signed = run.pre.signed

\* C23: the step leaves NewHeight only by the NewHeight timeout, which enters
\* NewRound(0) and then Propose(0); a peer or internal message handled in step
\* NewHeight changes no step and has no vote signed
C23_LeavesNewHeightByTimeout ==
    \A n \in correct : \A run \in Runs(n) :
        run.pre.Step = RoundStepNewHeight =>
            IF run.kind = "timeout"
            THEN run.post.Step # RoundStepNewHeight =>
                     /\ run.ev[1].Step = RoundStepNewHeight
                     /\ \E i \in Positions(run, "wal.NewRoundStep") :
                            /\ run.post.ops[i].S = RoundStepPropose
                            /\ run.post.ops[i].R = 0
                            /\ \A j \in Positions(run, "wal.NewRoundStep") : i <= j
            ELSE /\ run.post.Step = RoundStepNewHeight
                 /\ run.post.signed = run.pre.signed

\* the run handles the Propose timeout of the validator's height and round
\* while the validator is in step Propose
ProposeTimeoutFires(run) ==
    /\ run.kind = "timeout"
    /\ run.ev[1] = [Height |-> run.pre.Height, Round |-> run.pre.Round,
                    Step |-> RoundStepPropose]
    /\ run.pre.Step = RoundStepPropose

\* C24: when the Propose timeout of (h, r) fires in step Propose of (h, r), the
\* validator enters Prevote(r) and the prevote it signs is for nil
C24_ProposeTimeoutPrevotesNil ==
    \A n \in correct : \A run \in Runs(n) :
        ProposeTimeoutFires(run) =>
            /\ run.post.Step = RoundStepPrevote
            /\ run.post.Round = run.pre.Round
            /\ run.post.signed \ run.pre.signed =
                   {[Type |-> VoteTypePrevote, ValidatorIndex |-> run.pre.me,
                     Height |-> run.pre.Height, Round |-> run.pre.Round,
                     BlockID |-> NilBlockID, SigOK |-> TRUE]}

C24_Witness ==
    \E n \in correct : \E run \in Runs(n) :
        /\ ProposeTimeoutFires(run)
        /\ run.post.Step = RoundStepPrevote
        /\ \E v \in run.post.signed \ run.pre.signed : v.BlockID = NilBlockID

\* the run enters Precommit while the prevote aggregate of the round, as it is
\* when the run ends, has no +2/3 majority
NoPolka(run) ==
    /\ EntersPrecommit(run)
    /\ ~AggrTwoThirdsMajority(AggrOf(run.post.VoteSignAggr, VoteTypePrevote, run.pre.Round)).ok

PolkaOf(run) ==
    AggrTwoThirdsMajority(AggrOf(run.post.VoteSignAggr, VoteTypePrevote, run.pre.Round))

SignsPrecommit(run, b) ==
    run.post.signed \ run.pre.signed =
        {[Type |-> VoteTypePrecommit, ValidatorIndex |-> run.pre.me, Height |-> run.pre.Height,
          Round |-> run.pre.Round, BlockID |-> b, SigOK |-> TRUE]}

TwoThirdsAnyOnly(vs) ==
    /\ 3 * SumPower({v \in Val : vs[v] # NoVote}) > 2 * TotalVotingPower
    /\ ~VoteSetHasTwoThirdsMajority(vs)

\* the run adds the vote with which the votes of the kind at the current round
\* reach +2/3 of any kind without a majority
ReachesAnyOnly(run, type) ==
    /\ run.kind # "timeout"
    /\ run.ev[1].kind = "vote"
    /\ ~TwoThirdsAnyOnly(VotesOf(run.pre.Votes, type, run.pre.Round))
    /\ TwoThirdsAnyOnly(VotesOf(run.post.Votes, type, run.pre.Round))

TimeoutFires(run, step) ==
    /\ run.kind = "timeout"
    /\ run.ev[1] = [Height |-> run.pre.Height, Round |-> run.pre.Round, Step |-> step]
    /\ run.pre.Step = step

\* C27: when the prevotes of the current round reach +2/3 of any kind without
\* a majority, the validator enters PrevoteWait and arms the prevote timeout;
\* when that timeout fires it enters Precommit
C27_PrevoteWait ==
    \A n \in correct : \A run \in Runs(n) :
        /\ (ReachesAnyOnly(run, VoteTypePrevote) /\ run.pre.Step < RoundStepPrevoteWait) =>
              /\ run.post.Step = RoundStepPrevoteWait
              /\ run.post.timeout = <<[Height |-> run.pre.Height, Round |-> run.pre.Round,
                                        Step |-> RoundStepPrevoteWait]>>
        /\ TimeoutFires(run, RoundStepPrevoteWait) => run.post.Step = RoundStepPrecommit

\* C28: when the precommits of the current round reach +2/3 of any kind
\* without a majority, the validator enters PrecommitWait and arms the
\* precommit timeout; when that timeout fires it enters the next round
C28_PrecommitWait ==
    \A n \in correct : \A run \in Runs(n) :
        /\ (ReachesAnyOnly(run, VoteTypePrecommit) /\ run.pre.Step < RoundStepPrecommitWait) =>
              /\ run.post.Step = RoundStepPrecommitWait
              /\ run.post.timeout = <<[Height |-> run.pre.Height, Round |-> run.pre.Round,
                                        Step |-> RoundStepPrecommitWait]>>
        /\ TimeoutFires(run, RoundStepPrecommitWait) => run.post.Round = run.pre.Round + 1

\* validator n has accepted a precommit aggregate with +2/3 for block b at its
\* height and round and holds the complete proposal block b
CommitReady(n, b) ==
    /\ ~cs[n].panicked
    /\ cs[n].PrecommitMaj23SignAggr # NoAggr
    /\ cs[n].PrecommitMaj23SignAggr[1].Maj23 = b
    /\ cs[n].ProposalBlock = b
    /\ IsComplete(cs[n].ProposalBlockParts)

\* C29: a validator that has accepted a precommit aggregate for a block b has
\* finalized b as soon as it holds the complete block b, in whatever order the
\* aggregate and the block parts arrived
C29_FinalizeWhenComplete ==
    \A n \in correct : \A b \in Blocks :
        CommitReady(n, b) =>
            /\ Len(cs[n].blockStore) >= cs[n].Height
            /\ cs[n].blockStore[cs[n].Height] = b

\* the tick of this run is older than the RoundState it is delivered to
StaleTick(run) ==
    /\ run.kind = "timeout"
    /\ \/ run.ev[1].Height # run.pre.Height
       \/ run.ev[1].Round < run.pre.Round
       \/ run.ev[1].Round = run.pre.Round /\ run.ev[1].Step < run.pre.Step

OnAggr(run) == run.kind # "timeout" /\ run.ev[1].kind = "aggr"

\* aggregate a passes the acceptance conditions in state s
Acceptable(s, a) ==
    /\ a.Height = s.Height /\ a.Round = s.Round
    /\ BLSVerifySignAggr(s, a) = [maj23 |-> TRUE, err |-> "nil"]
    /\ \/ a.Type = VoteTypePrevote /\ s.PrevoteMaj23SignAggr = NoAggr
       \/ a.Type = VoteTypePrecommit /\ s.PrecommitMaj23SignAggr = NoAggr

AcceptedPrevoteAggr(run) ==
    LET a == run.ev[1].body
    IN /\ run.post.PrevoteMaj23SignAggr = <<a>>
       /\ AggrOf(run.post.VoteSignAggr, VoteTypePrevote, a.Round) = <<a>>
       /\ IF isProposalComplete(run.pre)
          THEN /\ run.post.Step >= RoundStepPrecommit
               /\ run.pre.Step < RoundStepPrecommit =>
                      /\ run.post.Step = RoundStepPrecommit
                      /\ run.post.Round = a.Round
                      /\ run.post.lastStep.S = RoundStepPrecommit
          ELSE run.post.Step = run.pre.Step

AcceptedPrecommitAggr(run) ==
    LET a == run.ev[1].body
    IN /\ IF run.post.Height = run.pre.Height
          THEN /\ run.post.PrecommitMaj23SignAggr = <<a>>
               /\ AggrOf(run.post.VoteSignAggr, VoteTypePrecommit, a.Round) = <<a>>
          ELSE run.post.LastCommit = <<a>>
       /\ IF isProposalComplete(run.pre)
          THEN \/ run.pre.Step = RoundStepCommit /\ run.post.Step = RoundStepCommit
               \/ /\ Did(run, "CommitRound=")
                  /\ \E i \in Positions(run, "wal.NewRoundStep") :
                        /\ run.post.ops[i].S = RoundStepCommit
                        /\ run.post.ops[i].R = a.Round
          ELSE run.post.Step = run.pre.Step /\ ~Did(run, "CommitRound=")

\* C31: setMaj23SignAggr stores an aggregate only when its height and round are
\* the current ones, it verifies with maj23 and none of its kind is stored; an
\* accepted prevote aggregate is stored and, with a complete proposal, the
\* validator enters Precommit; an accepted precommit aggregate is stored and,
\* with a complete proposal, the validator enters Commit
C31_SetMaj23SignAggr ==
    \A n \in correct : \A run \in Runs(n) :
        OnAggr(run) =>
            LET a == run.ev[1].body
            IN /\ ~Acceptable(run.pre, a) => Untraced(run.post) = Untraced(run.pre)
               /\ (Acceptable(run.pre, a) /\ a.Type = VoteTypePrevote)
                      => AcceptedPrevoteAggr(run)
               /\ (Acceptable(run.pre, a) /\ a.Type = VoteTypePrecommit)
                      => AcceptedPrecommitAggr(run)

C31_Witness ==
    \E n \in correct : \E run \in Runs(n) :
        /\ OnAggr(run)
        /\ Acceptable(run.pre, run.ev[1].body)
        /\ run.ev[1].body.Type = VoteTypePrecommit
        /\ isProposalComplete(run.pre)
        /\ Did(run, "CommitRound=")
        /\ cs[n].PrevoteMaj23SignAggr # NoAggr

\* the aggregate verified last had a valid aggregate signature
VerifiedValid == cs.aggr # NoAggr /\ cs.aggr[1].Sig = "ok" /\ cs.aggr[1].BitArray # {}

\* C32: for a bitmap with a valid aggregate signature, verify returns maj23
\* exactly when the voting power of the set bits strictly exceeds 2/3 of the
\* total, which is power >= floor(2 * total / 3) + 1
C32_QuorumExact ==
    (correct = {} /\ VerifiedValid) =>
        LET power == SumPower(cs.aggr[1].BitArray)
            total == SumPower(DOMAIN cs.powers)
        IN /\ cs.result.err = "nil"
           /\ cs.result.maj23 <=> (3 * power > 2 * total)
           /\ cs.result.maj23 <=> (power >= ((2 * total) \div 3) + 1)

\* the same for the validator sets whose doubled total fits the integer width
C32_QuorumExactSmall ==
    (correct = {} /\ VerifiedValid /\ 2 * SumPower(DOMAIN cs.powers) < 2^(IntBits - 1)) =>
        LET power == SumPower(cs.aggr[1].BitArray)
            total == SumPower(DOMAIN cs.powers)
        IN /\ cs.result.err = "nil"
           /\ cs.result.maj23 <=> (3 * power > 2 * total)
           /\ cs.result.maj23 <=> (power >= ((2 * total) \div 3) + 1)

\* the aggregates built by sendMaj23SignAggr in this run
BuiltAggrs(run) == run.post.fired \ run.pre.fired

\* C33: the aggregate built for (height, round, kind) sets a bit only for the
\* validators whose vote of that kind is for the aggregate's BlockID, and its
\* Maj23 BlockID is that BlockID and the +2/3 majority of the votes of that kind
C33_BuiltAggregate ==
    \A n \in correct : \A run \in Runs(n) : \A a \in BuiltAggrs(run) :
        LET votes == VotesOf(run.post.Votes, a.Type, a.Round)
        IN /\ a.Height = run.pre.Height /\ a.Round = run.pre.Round
           /\ \A v \in a.BitArray : votes[v] = a.BlockID
           /\ a.Maj23 = a.BlockID
           /\ VoteSetTwoThirdsMajority(votes) = [blockID |-> a.Maj23, ok |-> TRUE]

\* the part of C33 that the code keeps: the aggregate is for the current height,
\* round and kind and its bits are validators that voted in that set
C33_BuiltAggregateFrame ==
    \A n \in correct : \A run \in Runs(n) : \A a \in BuiltAggrs(run) :
        LET votes == VotesOf(run.post.Votes, a.Type, a.Round)
        IN /\ a.Height = run.pre.Height /\ a.Round = run.pre.Round
           /\ \A v \in a.BitArray : votes[v] # NoVote
           /\ a.BlockID \in {votes[v] : v \in a.BitArray}

\* the receive routine of validator n has taken the quit case
HasQuit(n) == n \in correct /\ cs[n].exit # <<>>

\* what the write-ahead log holds of validator n: its last step record and the
\* end-of-height markers, one per stored block
WalOf(s) == [lastStep |-> s.lastStep, endHeights |-> s.stateLastBlockHeight]

QuitInOrder(n) ==
    HasQuit(n) =>
        /\ cs[n].quit
        /\ cs[n].exit = <<"wal.Stop", "close(done)">>
        /\ Runs(n) = {}

FrozenAfterQuit(n) ==
    HasQuit(n) =>
        /\ RoundStateOf(cs'[n]) = RoundStateOf(cs[n])
        /\ WalOf(cs'[n]) = WalOf(cs[n])
        /\ cs'[n].exit = cs[n].exit

\* C34: on quit the receive routine stops the WAL, then closes done, and
\* returns; afterwards no peer message, internal message or timeout tick
\* changes the RoundState or is written to the WAL
C34_Quit ==
    /\ [](\A n \in 1..3 : QuitInOrder(n))
    /\ [][\A n \in 1..3 : FrozenAfterQuit(n)]_vars

C34_Witness ==
    \E n \in correct :
        /\ HasQuit(n)
        /\ cs[n].internalMsgQueue # <<>>
        /\ cs[n].timeout # <<>>
        /\ cs[n].Step = RoundStepPrevote

\* the proposals signed in this run
SignedProposals(run) == run.post.proposed \ run.pre.proposed

ProposalBlockRule(run, p) ==
    /\ GetProposer(p.Height, p.Round) = run.pre.me
    /\ p.Height = run.pre.Height
    /\ IF run.pre.LockedBlock # NoBlock THEN p.BlockID = run.pre.LockedBlock
       ELSE p.BlockID = createProposalBlock(run.pre)
    /\ p.POLRound = POLInfo(run.pre.VoteSignAggr).round

\* C35: the proposal a proposer signs is for LockedBlock when it is locked and
\* for a newly created block otherwise; its POLRound is the result of POLInfo
\* on VoteSignAggr, which is -1 or less than the round of the proposal
C35_DecideProposal ==
    \A n \in correct : \A run \in Runs(n) : \A p \in SignedProposals(run) :
        /\ ProposalBlockRule(run, p)
        /\ p.POLRound = -1 \/ p.POLRound < p.Round

\* C35 without the bound on POLRound
C35_DecideProposalBlock ==
    \A n \in correct : \A run \in Runs(n) : \A p \in SignedProposals(run) :
        ProposalBlockRule(run, p)

\* the run finalized its height: the block was applied and the state updated
FinalizesHeight(run) == Did(run, "ApplyBlock") /\ run.post.Height # run.pre.Height

\* C36: after a successful finalize of height h the RoundState is reset to
\* height h+1, round 0, step NewHeight, with no proposal, lock or aggregate and
\* empty vote structures, and LastCommit is the precommit aggregate of height h
\* at the committed round
C36_ResetAfterFinalize ==
    \A n \in correct : \A run \in Runs(n) :
        FinalizesHeight(run) =>
            /\ run.post.Height = run.pre.Height + 1
            /\ run.post.Round = 0
            /\ run.post.Step = RoundStepNewHeight
            /\ run.post.CommitRound = -1
            /\ run.post.Proposal = <<>>
            /\ run.post.ProposalBlock = NoBlock
            /\ run.post.ProposalBlockParts = NilParts
            /\ run.post.LockedBlock = NoBlock
            /\ run.post.PrevoteMaj23SignAggr = NoAggr
            /\ run.post.PrecommitMaj23SignAggr = NoAggr
            /\ run.post.Votes = NewHeightVoteSet
            /\ run.post.VoteSignAggr = NewHeightVoteSignAggr
            /\ run.post.LastCommit # NoAggr
            /\ run.post.LastCommit[1].Height = run.pre.Height
            /\ run.post.LastCommit[1].Type = VoteTypePrecommit
            /\ \A i \in Positions(run, "CommitRound=") :
                  run.post.LastCommit[1].Round = run.post.ops[i].R
            /\ run.post.LastCommit \in
                  {AggrOf(run.pre.VoteSignAggr, VoteTypePrecommit, run.pre.Round)}
                  \cup (IF OnAggr(run) THEN {<<run.ev[1].body>>} ELSE {})

C36_Witness ==
    \E n \in correct : \E run \in Runs(n) :
        /\ FinalizesHeight(run)
        /\ run.pre.LockedBlock # NoBlock
        /\ run.pre.PrevoteMaj23SignAggr # NoAggr
        /\ run.post.LastCommit # NoAggr

\* the run enters a round r >= 1 of the same height
EntersLaterRound(run) ==
    run.post.Height = run.pre.Height /\ run.post.Round > run.pre.Round

\* the run enters round 0: the NewHeight timeout fires in step NewHeight
EntersRoundZero(run) ==
    /\ TimeoutFires(run, RoundStepNewHeight)
    /\ run.post.Step > RoundStepNewHeight

ProposalCleared(s) ==
    s.Proposal = <<>> /\ s.ProposalBlock = NoBlock /\ s.ProposalBlockParts = NilParts

SignedAt(s, type, h, r) ==
    {v \in s.signed : v.Type = type /\ v.Height = h /\ v.Round = r}

\* C38: a validator signs at most one prevote and at most one precommit for
\* each (height, round): no handler signs a vote of a kind the validator has
\* already signed for its height and round, nor two of a kind at once
C38_OneVotePerRound ==
    \A n \in correct :
        /\ \A type \in {VoteTypePrevote, VoteTypePrecommit} :
           \A h \in 1..(MaxHeight + 1) : \A r \in Rounds :
               Cardinality(SignedAt(cs[n], type, h, r)) <= 1
        /\ \A run \in Runs(n) :
               /\ Cardinality(run.post.signed \ run.pre.signed)
                     = Cardinality(Positions(run, "signVote"))
               /\ \A v \in run.post.signed \ run.pre.signed :
                     /\ v.ValidatorIndex = n
                     /\ SignedAt(run.post, v.Type, v.Height, v.Round) = {v}

C38_Witness ==
    \E n \in correct : \E run \in Runs(n) :
        /\ SignedAt(run.pre, VoteTypePrevote, 1, 0) # {}
        /\ SignedAt(run.pre, VoteTypePrecommit, 1, 0) # {}
        /\ run.kind = "peer" /\ run.ev[1].kind = "proposal"
        /\ run.pre.Height = 1
        /\ run.post.signed = run.pre.signed

\* finalizeCommit runs in this run with the block of the height already stored
FinalizesStored(run) ==
    Did(run, "wal.EndHeight") /\ Len(run.pre.blockStore) >= run.pre.Height

\* the same run by a validator whose block store does not hold the block yet
Uninterrupted(run) ==
    receiveRoutine([run.pre EXCEPT !.blockStore = SubSeq(@, 1, run.pre.Height - 1)],
                   run.kind, run.ev[1], ~ApplyFails(run)).s

C40_CommitRoundStep ==
    \A n \in correct :
        ~cs[n].panicked =>
            /\ (cs[n].Step = RoundStepCommit) <=> (cs[n].CommitRound # -1)
            /\ cs[n].CommitRound # -1 => cs[n].CommitRound = cs[n].Round

C40_Witness ==
    \E n \in correct :
        /\ ~cs[n].panicked
        /\ cs[n].Step = RoundStepCommit
        /\ cs[n].CommitRound = cs[n].Round
        /\ cs[n].PrecommitMaj23SignAggr # NoAggr
====
